---- MODULE Spec2Model ----
(***************************************************************************)
(* Model of reth's network SessionManager                                  *)
(* (crates/net/network/src/session/mod.rs): the session tables, the        *)
(* admission counter, the spawned handshake tasks (pending sessions), the  *)
(* spawned ActiveSession tasks, and the two bounded channels poll() merges,*)
(* with the limiter of graceful disconnects, the advertised block range    *)
(* and one connection's handshake followed call by call; and of the ExEx   *)
(* notification stream (crates/exex/exex/src/notifications.rs).            *)
(*                                                                         *)
(* Socket addresses, keys and message payloads are passed through by the   *)
(* code without being inspected and are left out of the records.           *)
(***************************************************************************)
EXTENDS Integers, Sequences, FiniteSets, TLC

\* ------------------------------------------------------------------ bounds
\* Number of connection attempts admitted in one run (cap on next_id).
MaxSessions == 2
\* Remote peer identities 1..NumPeers.
NumPeers == 2
\* SessionsConfig.session_event_buffer: capacity of both manager channels.
session_event_buffer == 1
\* SessionsConfig.session_command_buffer: capacity of a session's command channel.
session_command_buffer == 1
\* Cap on the dropped-messages metric counted in one run.
MaxDropped == 2
\* Most extra sub-protocol handlers registered for one connection.
MaxHandlers == 2
\* Highest block number of the chains the node and the ExEx have seen.
MaxBlock == 2
\* Capacity of the channel of ExEx notifications.
MaxNotifications == 2

Peers == 1..NumPeers

\* SessionsConfig.limits: the configurations of the per-direction session
\* limits the manager is constructed with.
SessionLimits(max_in, max_out) == [max_inbound |-> max_in, max_outbound |-> max_out]

Limits == {SessionLimits(1, 1), SessionLimits(2, 0)}
NoPeer == 1 - 1
NoId == 0 - 1

\* --------------------------------------------------------------- data types
\* reth_network_api::Direction
Incoming == [out |-> FALSE, peer |-> NoPeer]
Outgoing(p) == [out |-> TRUE, peer |-> p]

\* PendingSessionEvent (session/handle.rs), the fields the manager reads.
PendingSessionEvent(type, session_id, peer_id, direction, error) ==
    [type |-> type, session_id |-> session_id, peer_id |-> peer_id,
     direction |-> direction, error |-> error]

\* ActiveSessionMessage (session/handle.rs).
ActiveSessionMessage(type, peer_id) == [type |-> type, peer_id |-> peer_id]

\* SessionEvent, the value poll() returns.
SessionEvent(type, peer_id, direction, error) ==
    [type |-> type, peer_id |-> peer_id, direction |-> direction, error |-> error]

NoEvent == SessionEvent("None", NoPeer, Incoming, "None")

\* What the step just taken returned to the manager's caller: op names the
\* call ("none" for a step of a spawned session task), on_incoming returns a
\* Result<SessionId, _>, poll a Poll<SessionEvent> (ok = FALSE is the Err,
\* respectively Poll::Pending).
Ret(op, ok, id, ev) == [op |-> op, ok |-> ok, id |-> id, ev |-> ev]

NoRet == Ret("none", TRUE, NoId, NoEvent)

\* PendingSessionHandle { disconnect_tx, direction }
PendingSessionHandle(direction) == [disconnect_tx |-> TRUE, direction |-> direction]

\* ActiveSessionHandle, the fields the manager reads.
ActiveSessionHandle(session_id, peer_id, direction) ==
    [session_id |-> session_id, remote_id |-> peer_id, direction |-> direction]

\* BlockRangeUpdate { earliest, latest, latest_hash }; the same three values
\* are the earliest_block, latest_block and blockhash of the Status message
\* and the content of BlockRangeInfo.
BlockRangeUpdate(earliest, latest, latest_hash) ==
    [earliest |-> earliest, latest |-> latest, latest_hash |-> latest_hash]

\* The range of the status the manager is constructed with.
InitialRange == BlockRangeUpdate(1 - 1, 1 - 1, 1 - 1)

\* The spawned ActiveSession future, the fields the model reads.
ActiveSession(session_id, peer_id, range_info) ==
    [session_id |-> session_id, peer_id |-> peer_id, local_range_info |-> range_info]

\* One connection's authenticate future followed through its steps.
\*   pc             the call it is suspended in or about to make
\*   registered     the extra handlers it was given
\*   extra_handlers the handlers it still holds
\*   their_hello    what the capability handshake resolved to
\*   conn           the connection it built for the status exchange
\*   installed      capabilities installed on the multiplexer
\*   steps          history: the calls made so far and whether each succeeded
\*   event          the PendingSessionEvent it ended with
NoHandshake ==
    [pc |-> "none", session_id |-> NoId, direction |-> Incoming, registered |-> << >>,
     extra_handlers |-> << >>, their_hello |-> [ok |-> FALSE, id |-> NoPeer, shared |-> {}],
     conn |-> "None", installed |-> {}, steps |-> << >>,
     event |-> PendingSessionEvent("None", NoId, NoPeer, Incoming, "None")]

\* ------------------------------------------- ExEx notification data types
\* A block hash names the block: its number and the chain it was built on.
\* The genesis block is on the canonical chain only.
BlockChains == {"canonical", "fork"}
Genesis == 1 - 1
NoBlock == 0 - 1
Hash(number, chain) == [number |-> number, chain |-> chain]
BlockNumHash(number, hash) == [number |-> number, hash |-> hash]
ExExHead(block) == [block |-> block]

\* The heads an ExEx can report: any block of either chain.
ExExHeads ==
    {ExExHead(BlockNumHash(n, Hash(n, c))) : n \in 1..MaxBlock, c \in BlockChains}
    \cup {ExExHead(BlockNumHash(Genesis, Hash(Genesis, "canonical")))}

\* Chain: the consecutive blocks first..tip of one chain; parent_hash is the
\* parent hash of the first block.
Chain(first, tip, chain, parent_hash) ==
    [first |-> first, tip |-> tip, chain |-> chain, parent_hash |-> parent_hash]
NoHash == Hash(NoBlock, "none")
NoChain == Chain(NoBlock, NoBlock, "none", NoHash)

\* The chain of canonical blocks first..tip.
CanonicalChain(first, tip) == Chain(first, tip, "canonical", Hash(first - 1, "canonical"))

\* ExExNotification
ChainCommitted(new) == [type |-> "ChainCommitted", old |-> NoChain, new |-> new]
ChainReorged(old, new) == [type |-> "ChainReorged", old |-> old, new |-> new]
ChainReverted(old) == [type |-> "ChainReverted", old |-> old, new |-> NoChain]
NoNotification == [type |-> "none", old |-> NoChain, new |-> NoChain]

\* ExExNotification::committed_chain: the new chain of a commit or a reorg.
committed_chain(notification) == notification.new

\* ExExNotification::into_inverted: commits become reverts and the reverse,
\* a reorg swaps its chains.
into_inverted(notification) ==
    CASE notification.type = "ChainCommitted" -> ChainReverted(notification.new)
      [] notification.type = "ChainReverted" -> ChainCommitted(notification.old)
      [] notification.type = "ChainReorged" ->
             ChainReorged(notification.new, notification.old)

\* Poll<Option<eyre::Result<ExExNotification>>>
Item(poll, some, ok, notification) ==
    [poll |-> poll, some |-> some, ok |-> ok, notification |-> notification]
PollPending == Item("Pending", FALSE, TRUE, NoNotification)
NoItem == Item("none", FALSE, TRUE, NoNotification)
\* unreachable!() was reached: the call panicked.
Panicked == Item("panic", FALSE, FALSE, NoNotification)
ReadyNone == Item("Ready", FALSE, TRUE, NoNotification)
ReadyOk(notification) == Item("Ready", TRUE, TRUE, notification)
ReadyErr == Item("Ready", TRUE, FALSE, NoNotification)

\* StreamBackfillJob over the blocks next..=end still to be executed.
BackfillJob(next, end) == [next |-> next, end |-> end]
NoJob == BackfillJob(NoBlock, NoBlock)

\* ExExNotificationsInner::WithoutHead(ExExNotificationsWithoutHead): the
\* fields of a with-head stream it lacks are left at their empty values.
WithoutHead(node_head) ==
    [tag |-> "WithoutHead",
     initial_local_head |-> node_head,
     initial_exex_head |-> ExExHead(BlockNumHash(NoBlock, NoHash)),
     pending_check_canonical |-> FALSE,
     pending_check_backfill |-> FALSE,
     backfill_job |-> NoJob]

\* ExExNotificationsWithHead::new inside ExExNotificationsInner::WithHead
WithHead(node_head, exex_head) ==
    [tag |-> "WithHead",
     initial_local_head |-> node_head,
     initial_exex_head |-> exex_head,
     pending_check_canonical |-> TRUE,
     pending_check_backfill |-> TRUE,
     backfill_job |-> NoJob]

\* ExExNotificationsInner::Invalid
Invalid == [WithoutHead(BlockNumHash(NoBlock, NoHash)) EXCEPT !.tag = "Invalid"]

\* The output of a stream call: its name, its argument, what it returned,
\* the step of poll_next (or the arm of a setter's match) that returned and
\* the notifications it skipped.
StreamRet(op, arg, item, source) ==
    [op |-> op, arg |-> arg, item |-> item, source |-> source, skipped |-> 0]
NoStreamRet == StreamRet("none", NoNotification, NoItem, "none")

\* The channel of live notifications: its queue and whether the sender is
\* dropped.
Receiver(queue, closed) == [queue |-> queue, closed |-> closed]

\* The node's database holds the canonical blocks up to its tip.
Provider(tip) == [tip |-> tip]

\* ------------------------------------------------------------------- state
VARIABLES
    next_id,             \* SessionManager.next_id
    counter,             \* SessionManager.counter (SessionCounter)
    pending_sessions,    \* SessionManager.pending_sessions: SessionId -> handle
    active_sessions,     \* SessionManager.active_sessions: handles keyed by remote_id
    pending_session_rx,  \* queue of the PendingSessionEvent channel
    active_session_rx,   \* queue of the ActiveSessionMessage channel
    pending_tasks,       \* spawned pending_session_with_timeout futures, by SessionId
    sessions,            \* spawned ActiveSession tasks still running
    commands_to_session, \* per active handle (by remote_id): queue of its command channel
    total_outgoing_peer_messages_dropped,  \* SessionManagerMetrics counter
    ret,                 \* output of the step just taken: the manager call and its result
    issued,              \* history: the SessionIds next_id() has returned, in order
    retired,             \* history: per SessionId, terminal events poll() has consumed
    closed_absent,       \* history: the close message poll() took last named a peer without a handle
    status,              \* SessionManager.status: the block range fields of the Status
    local_range_info,    \* SessionManager.local_range_info
    disconnections_counter,  \* strong count of SessionManager.disconnections_counter
    graceful_disconnects,    \* spawned graceful-disconnect tasks, counted per position
    handshake,           \* one connection's authenticate future, stage by stage
    inner,               \* ExExNotifications.inner (ExExNotificationsInner)
    notifications,       \* the Receiver<ExExNotification> and its sender's end
    provider,            \* the blocks the node's database holds
    wal_handle,          \* the committed notifications the WAL holds
    exex_ret,            \* output of the stream call just made
    emitted              \* history: the steps that yielded an item since the stream was configured

vars == <<next_id, counter, pending_sessions, active_sessions, pending_session_rx,
          active_session_rx, pending_tasks, sessions, commands_to_session,
          total_outgoing_peer_messages_dropped, ret, issued, retired, closed_absent,
          status, local_range_info, disconnections_counter, graceful_disconnects,
          handshake, inner, notifications, provider, wal_handle, exex_ret, emitted>>

\* The ExEx notification stream, its channel and the node it reads.
stream_state == <<inner, notifications, provider, wal_handle, exex_ret, emitted>>

\* The state poll's active arms leave alone and the other operations of the
\* session tables read at most: the advertised range, the disconnection
\* limiter, the stage-by-stage handshake and the notification stream.
poll_state ==
    <<status, local_range_info, disconnections_counter, graceful_disconnects, handshake,
      stream_state>>

\* The same, with the history only poll's active arms write.
side_state == <<poll_state, closed_absent>>

\* The session tables, the admission counter, the tasks and the channels.
session_state ==
    <<next_id, counter, pending_sessions, active_sessions, pending_session_rx,
      active_session_rx, pending_tasks, sessions, commands_to_session,
      total_outgoing_peer_messages_dropped, issued, retired, closed_absent>>

\* ------------------------------------------------------- admission counter
\* SessionCounter (session/counter.rs): the configured limits and four counts.
\* A permit for a pending session of a direction is granted while pending +
\* active of that direction is below the limit of that direction.
SessionCounter(limits) ==
    [limits |-> limits, pending_inbound |-> 0, pending_outbound |-> 0,
     active_inbound |-> 0, active_outbound |-> 0]

ensure_pending_inbound(c) == c.pending_inbound + c.active_inbound < c.limits.max_inbound

ensure_pending_outbound(c) == c.pending_outbound + c.active_outbound < c.limits.max_outbound

inc_pending_inbound(c) == [c EXCEPT !.pending_inbound = @ + 1]

inc_pending_outbound(c) == [c EXCEPT !.pending_outbound = @ + 1]

dec_pending(c, direction) ==
    IF direction.out THEN [c EXCEPT !.pending_outbound = @ - 1]
    ELSE [c EXCEPT !.pending_inbound = @ - 1]

inc_active(c, direction) ==
    IF direction.out THEN [c EXCEPT !.active_outbound = @ + 1]
    ELSE [c EXCEPT !.active_inbound = @ + 1]

dec_active(c, direction) ==
    IF direction.out THEN [c EXCEPT !.active_outbound = @ - 1]
    ELSE [c EXCEPT !.active_inbound = @ - 1]

\* ----------------------------------------------------------------- helpers
\* tokio::sync::mpsc::channel(session_event_buffer): a send completes only
\* while fewer than session_event_buffer messages are queued.
HasCapacity(q) == Len(q) < session_event_buffer

\* A spawned pending_session_with_timeout future.
\*   pc        where the future is suspended
\*   direction the Direction it was spawned with
\*   cancelled the oneshot disconnect_rx holds a signal the select in
\*             authenticate has yet to see
\*   res       the event a suspended events.send(..) is holding
\*   sent      number of events it has put on the pending-event channel
\*   status    the copy of the manager's status it was spawned with
PendingTask(pc, direction, st) ==
    [pc |-> pc, direction |-> direction, cancelled |-> FALSE,
     res |-> PendingSessionEvent("None", NoId, NoPeer, Incoming, "None"), sent |-> 0,
     status |-> st]

\* Mutant of next_id_after: the field is not incremented.
next_id_stuck(n) == n

\* SessionManager::next_id: returns the current id and increments the field.
next_id_after(n) == n + 1

\* HashMap::insert on active_sessions: the entry of the same key is replaced.
ActiveInsert(as, handle) == {h \in as : h.remote_id # handle.remote_id} \cup {handle}

ActiveContainsKey(as, peer_id) == \E h \in as : h.remote_id = peer_id

ActiveGet(as, peer_id) == CHOOSE h \in as : h.remote_id = peer_id

\* SessionCommand (session/handle.rs), the variant only.
SessionCommands == {"Message", "Disconnect"}

\* The command channel created with a new ActiveSessionHandle, and the drop of
\* the handle's sender with the handle.
CommandsInsert(cs, peer_id) == (peer_id :> << >>) @@ cs

CommandsRemove(cs, peer_id) == [p \in DOMAIN cs \ {peer_id} |-> cs[p]]

\* Mutant of remove_pending_session: the handle is removed, the counter is not
\* decremented.
remove_pending_session_no_dec(ps, c, id) ==
    IF id \in DOMAIN ps
    THEN [pending_sessions |-> [i \in DOMAIN ps \ {id} |-> ps[i]], counter |-> c]
    ELSE [pending_sessions |-> ps, counter |-> c]

\* SessionManager::remove_pending_session: removes the handle if it exists and
\* decrements the pending counter of the handle's direction.
remove_pending_session(ps, c, id) ==
    IF id \in DOMAIN ps
    THEN [pending_sessions |-> [i \in DOMAIN ps \ {id} |-> ps[i]],
          counter |-> dec_pending(c, ps[id].direction)]
    ELSE [pending_sessions |-> ps, counter |-> c]

\* Mutant of remove_active_session: the handle is removed, the counter is not
\* decremented.
remove_active_session_no_dec(as, c, peer_id) ==
    [active_sessions |-> {h \in as : h.remote_id # peer_id}, counter |-> c]

\* Mutant of remove_active_session: the counter is decremented whether or not
\* the handle exists.
remove_active_session_always_dec(as, c, peer_id) ==
    [active_sessions |-> {h \in as : h.remote_id # peer_id},
     counter |-> dec_active(c, IF ActiveContainsKey(as, peer_id)
                               THEN ActiveGet(as, peer_id).direction ELSE Incoming)]

\* SessionManager::remove_active_session: removes the handle if it exists and
\* decrements the active counter of the handle's direction.
remove_active_session(as, c, peer_id) ==
    IF ActiveContainsKey(as, peer_id)
    THEN [active_sessions |-> {h \in as : h.remote_id # peer_id},
          counter |-> dec_active(c, ActiveGet(as, peer_id).direction)]
    ELSE [active_sessions |-> as, counter |-> c]

\* ---------------------------------------------------------------- initial
SessionManager_new ==
    /\ next_id = 0
    /\ counter \in {SessionCounter(limits) : limits \in Limits}
    /\ pending_sessions = << >>
    /\ active_sessions = {}
    /\ pending_session_rx = << >>
    /\ active_session_rx = << >>
    /\ pending_tasks = << >>
    /\ sessions = {}
    /\ commands_to_session = << >>
    /\ total_outgoing_peer_messages_dropped = 0
    /\ ret = NoRet
    /\ issued = << >>
    /\ retired = << >>
    /\ closed_absent = FALSE
    /\ status = InitialRange
    /\ local_range_info = InitialRange
    /\ disconnections_counter = 1
    /\ graceful_disconnects = [get_ecies_stream |-> 0, send_disconnect |-> 0]
    /\ handshake = NoHandshake

\* The node's launch heads: a canonical block.
NodeHeads == {BlockNumHash(n, Hash(n, "canonical")) : n \in Genesis..MaxBlock}

\* The committed chains of the WAL that the database does not hold: blocks
\* first..tip of the fork; the parent of the first block is on the fork or
\* on the canonical chain.
WalChains ==
    {Chain(first, tip, "fork", Hash(first - 1, pc)) :
        first \in 1..MaxBlock, tip \in 1..MaxBlock, pc \in BlockChains}

IsWalChain(chain) ==
    /\ chain.first <= chain.tip
    /\ chain.first = 1 => chain.parent_hash.chain = "canonical"

ChainHasBlock(chain, hash) ==
    /\ chain.chain = hash.chain
    /\ chain.first <= hash.number
    /\ hash.number <= chain.tip

\* The contents of a WAL: committed chains no two of which hold the same
\* block.
Wals ==
    {wal \in SUBSET {chain \in WalChains : IsWalChain(chain)} :
        \A a \in wal, b \in wal :
            a # b => \A n \in 1..MaxBlock :
                        ~(ChainHasBlock(a, Hash(n, a.chain)) /\ ChainHasBlock(b, Hash(n, a.chain)))}

\* ExExNotifications::new: a stream without a head over an open, empty
\* channel, for a node launched at node_head whose WAL holds wal.
ExExNotifications_new(node_head, wal) ==
    /\ inner = WithoutHead(node_head)
    /\ notifications = Receiver(<< >>, FALSE)
    /\ provider = Provider(node_head.number)
    /\ wal_handle = wal
    /\ exex_ret = NoStreamRet
    /\ emitted = {}

\* The session manager as constructed, beside a stream of a node at genesis.
Init ==
    /\ SessionManager_new
    /\ ExExNotifications_new(BlockNumHash(Genesis, Hash(Genesis, "canonical")), {})

\* The stream as constructed, for every launch head and WAL, beside a session
\* manager.
InitNotifications ==
    /\ SessionManager_new
    /\ counter = SessionCounter(SessionLimits(1, 1))
    /\ \E node_head \in NodeHeads, wal \in Wals : ExExNotifications_new(node_head, wal)

\* ------------------------------------------------------- manager operations
\* Mutant of on_incoming: the SessionId is allocated before the capacity check.
on_incoming_id_first ==
    /\ next_id < MaxSessions
    /\ next_id' = next_id_after(next_id)
    /\ IF ~ensure_pending_inbound(counter)
       THEN /\ ret' = Ret("on_incoming", FALSE, NoId, NoEvent)
            /\ UNCHANGED <<counter, pending_sessions, pending_tasks, issued, retired>>
       ELSE /\ issued' = Append(issued, next_id)
            /\ retired' = retired @@ (next_id :> 0)
            /\ pending_tasks' = pending_tasks @@ (next_id :> PendingTask("ecies", Incoming, status))
            /\ pending_sessions' = pending_sessions @@ (next_id :> PendingSessionHandle(Incoming))
            /\ counter' = inc_pending_inbound(counter)
            /\ ret' = Ret("on_incoming", TRUE, next_id, NoEvent)
    /\ UNCHANGED <<active_sessions, pending_session_rx, active_session_rx, sessions,
                   commands_to_session, total_outgoing_peer_messages_dropped, side_state>>

\* Mutant of on_incoming: the pending-inbound counter is not incremented.
on_incoming_no_inc ==
    IF ~ensure_pending_inbound(counter)
    THEN /\ ret' = Ret("on_incoming", FALSE, NoId, NoEvent)
         /\ UNCHANGED <<next_id, counter, pending_sessions, active_sessions,
                        pending_session_rx, active_session_rx, pending_tasks,
                        sessions, commands_to_session,
                        total_outgoing_peer_messages_dropped, issued, retired, side_state>>
    ELSE /\ next_id < MaxSessions
         /\ next_id' = next_id_after(next_id)
         /\ issued' = Append(issued, next_id)
         /\ retired' = retired @@ (next_id :> 0)
         /\ pending_tasks' = pending_tasks @@ (next_id :> PendingTask("ecies", Incoming, status))
         /\ pending_sessions' = pending_sessions @@ (next_id :> PendingSessionHandle(Incoming))
         /\ ret' = Ret("on_incoming", TRUE, next_id, NoEvent)
         /\ UNCHANGED <<counter, active_sessions, pending_session_rx, active_session_rx,
                        sessions, commands_to_session,
                        total_outgoing_peer_messages_dropped, side_state>>

\* SessionManager::on_incoming
on_incoming ==
    IF ~ensure_pending_inbound(counter)
    THEN /\ ret' = Ret("on_incoming", FALSE, NoId, NoEvent)
         /\ UNCHANGED <<next_id, counter, pending_sessions, active_sessions,
                        pending_session_rx, active_session_rx, pending_tasks,
                        sessions, commands_to_session,
                        total_outgoing_peer_messages_dropped, issued, retired, side_state>>
    ELSE /\ next_id < MaxSessions
         /\ LET session_id == next_id IN
            /\ next_id' = next_id_after(next_id)
            /\ issued' = Append(issued, session_id)
            /\ retired' = retired @@ (session_id :> 0)
            /\ pending_tasks' = pending_tasks @@ (session_id :> PendingTask("ecies", Incoming, status))
            /\ pending_sessions' =
                   pending_sessions @@ (session_id :> PendingSessionHandle(Incoming))
            /\ counter' = inc_pending_inbound(counter)
            /\ ret' = Ret("on_incoming", TRUE, session_id, NoEvent)
         /\ UNCHANGED <<active_sessions, pending_session_rx, active_session_rx, sessions,
                        commands_to_session, total_outgoing_peer_messages_dropped, side_state>>

\* Mutant of dial_outbound: the session is spawned without the capacity check.
dial_outbound_unchecked(remote_peer_id) ==
    /\ next_id < MaxSessions
    /\ next_id' = next_id_after(next_id)
    /\ issued' = Append(issued, next_id)
    /\ retired' = retired @@ (next_id :> 0)
    /\ pending_tasks' =
           pending_tasks @@ (next_id :> PendingTask("connect", Outgoing(remote_peer_id), status))
    /\ pending_sessions' =
           pending_sessions @@ (next_id :> PendingSessionHandle(Outgoing(remote_peer_id)))
    /\ counter' = inc_pending_outbound(counter)
    /\ ret' = Ret("dial_outbound", TRUE, NoId, NoEvent)
    /\ UNCHANGED <<active_sessions, pending_session_rx, active_session_rx, sessions,
                   commands_to_session, total_outgoing_peer_messages_dropped, side_state>>

\* Mutant of dial_outbound: the SessionId is allocated before the capacity check.
dial_outbound_id_first(remote_peer_id) ==
    /\ next_id < MaxSessions
    /\ next_id' = next_id_after(next_id)
    /\ ret' = Ret("dial_outbound", TRUE, NoId, NoEvent)
    /\ IF ensure_pending_outbound(counter)
       THEN /\ issued' = Append(issued, next_id)
            /\ retired' = retired @@ (next_id :> 0)
            /\ pending_tasks' =
                   pending_tasks @@ (next_id :> PendingTask("connect", Outgoing(remote_peer_id), status))
            /\ pending_sessions' =
                   pending_sessions @@ (next_id :> PendingSessionHandle(Outgoing(remote_peer_id)))
            /\ counter' = inc_pending_outbound(counter)
       ELSE UNCHANGED <<counter, pending_sessions, pending_tasks, issued, retired>>
    /\ UNCHANGED <<active_sessions, pending_session_rx, active_session_rx, sessions,
                   commands_to_session, total_outgoing_peer_messages_dropped, side_state>>

\* SessionManager::dial_outbound
dial_outbound(remote_peer_id) ==
    IF ensure_pending_outbound(counter)
    THEN /\ next_id < MaxSessions
         /\ LET session_id == next_id IN
            /\ next_id' = next_id_after(next_id)
            /\ issued' = Append(issued, session_id)
            /\ retired' = retired @@ (session_id :> 0)
            /\ pending_tasks' =
                   pending_tasks @@ (session_id :> PendingTask("connect", Outgoing(remote_peer_id), status))
            /\ pending_sessions' =
                   pending_sessions @@ (session_id :> PendingSessionHandle(Outgoing(remote_peer_id)))
            /\ counter' = inc_pending_outbound(counter)
            /\ ret' = Ret("dial_outbound", TRUE, NoId, NoEvent)
         /\ UNCHANGED <<active_sessions, pending_session_rx, active_session_rx, sessions,
                        commands_to_session, total_outgoing_peer_messages_dropped, side_state>>
    ELSE /\ ret' = Ret("dial_outbound", TRUE, NoId, NoEvent)
         /\ UNCHANGED <<next_id, counter, pending_sessions, active_sessions,
                        pending_session_rx, active_session_rx, pending_tasks,
                        sessions, commands_to_session,
                        total_outgoing_peer_messages_dropped, issued, retired, side_state>>

\* ------------------------------------------------------ handshake pipeline
\* SessionManager.extra_protocols: the registered RLPx sub-protocol handlers,
\* each with its capability and its on_unsupported_by_peer policy.
ExtraProtocols ==
    << [cap |-> "a", on_unsupported |-> "Disconnect"],
       [cap |-> "b", on_unsupported |-> "NoAction"] >>

\* Capabilities the local hello can advertise: eth plus the handlers' own.
LocalCaps == {"eth"} \cup {ExtraProtocols[i].cap : i \in 1..Len(ExtraProtocols)}

\* What the remote can answer to stream.handshake(hello): an error, or its
\* hello with its id and the capabilities shared with ours.
HelloResults ==
    {[ok |-> FALSE, id |-> NoPeer, shared |-> {}]}
    \cup {[ok |-> TRUE, id |-> p, shared |-> sh] : p \in Peers, sh \in SUBSET LocalCaps}

RemoveAt(seq, pos) == [i \in 1..(Len(seq) - 1) |-> IF i < pos THEN seq[i] ELSE seq[i + 1]]

Min(S) == CHOOSE x \in S : \A y \in S : x <= y

\* authenticate_stream, the loop over the extra handlers: the first handler
\* whose capability is not shared is removed; if its policy is Disconnect the
\* handshake fails, otherwise the search repeats.
RECURSIVE check_extra_handlers(_, _)
check_extra_handlers(handlers, shared) ==
    LET unsupported == {i \in 1..Len(handlers) : handlers[i].cap \notin shared} IN
    IF unsupported = {}
    THEN [ok |-> TRUE, handlers |-> handlers]
    ELSE LET pos == Min(unsupported)
             handler == handlers[pos]
             rest == RemoveAt(handlers, pos)
         IN IF handler.on_unsupported = "Disconnect"
            THEN [ok |-> FALSE, handlers |-> rest]
            ELSE check_extra_handlers(rest, shared)

\* authenticate_stream: the PendingSessionEvent the handshake over the
\* encrypted stream ends with.  their_hello is the outcome of the capability
\* handshake, status_ok that of the chain (status) handshake.
authenticate_stream(session_id, direction, extra_handlers, their_hello, status_ok) ==
    IF ~their_hello.ok
    THEN PendingSessionEvent("Disconnected", session_id, NoPeer, direction, "Eth")
    ELSE IF ~check_extra_handlers(extra_handlers, their_hello.shared).ok
    THEN PendingSessionEvent("Disconnected", session_id, NoPeer, direction,
                             "UnsupportedExtraCapability")
    ELSE IF "eth" \notin their_hello.shared
    THEN PendingSessionEvent("Disconnected", session_id, NoPeer, direction, "Eth")
    ELSE IF ~status_ok
    THEN PendingSessionEvent("Disconnected", session_id, NoPeer, direction, "Eth")
    ELSE PendingSessionEvent("Established", session_id, their_hello.id, direction, "None")

\* Every event authenticate_stream can resolve to, over all answers of the
\* remote to the capability and the chain handshake.
AuthResults(session_id, direction) ==
    {authenticate_stream(session_id, direction, ExtraProtocols, their_hello, status_ok) :
        their_hello \in HelloResults, status_ok \in BOOLEAN}

NoPendingEvent == PendingSessionEvent("None", NoId, NoPeer, Incoming, "None")

\* A future that has run to completion: it is dropped with all it held; the
\* record keeps only the count of events it sent.
FinishedTask(sent) ==
    [pc |-> "done", direction |-> Incoming, cancelled |-> FALSE,
     res |-> NoPendingEvent, sent |-> sent, status |-> InitialRange]

\* events.send(ev).await inside a spawned task: completes at once while the
\* channel has capacity, otherwise the task stays suspended at wait_pc
\* holding ev.
TaskSend(id, ev, wait_pc) ==
    IF HasCapacity(pending_session_rx)
    THEN /\ pending_session_rx' = Append(pending_session_rx, ev)
         /\ pending_tasks' = [pending_tasks EXCEPT ![id] = FinishedTask(@.sent + 1)]
    ELSE /\ pending_session_rx' = pending_session_rx
         /\ pending_tasks' = [pending_tasks EXCEPT
                ![id].pc = wait_pc, ![id].res = ev, ![id].cancelled = FALSE]

TaskFrame ==
    /\ ret' = NoRet
    /\ UNCHANGED <<next_id, counter, pending_sessions, active_sessions, active_session_rx,
                   sessions, commands_to_session, total_outgoing_peer_messages_dropped,
                   issued, retired, side_state>>

\* start_pending_outbound_session: TcpStream::connect succeeded.
connect_ok(id) ==
    /\ pending_tasks[id].pc = "connect"
    /\ pending_tasks' = [pending_tasks EXCEPT ![id].pc = "ecies"]
    /\ UNCHANGED pending_session_rx
    /\ TaskFrame

\* start_pending_outbound_session: TcpStream::connect failed.
connect_err(id) ==
    /\ pending_tasks[id].pc = "connect"
    /\ TaskSend(id, PendingSessionEvent("OutgoingConnectionError", id,
                                        pending_tasks[id].direction.peer,
                                        pending_tasks[id].direction, "Io"), "send")
    /\ TaskFrame

\* authenticate: get_ecies_stream succeeded; the select over disconnect_rx and
\* authenticate_stream starts.
ecies_ok(id) ==
    /\ pending_tasks[id].pc = "ecies"
    /\ pending_tasks' = [pending_tasks EXCEPT ![id].pc = "auth"]
    /\ UNCHANGED pending_session_rx
    /\ TaskFrame

\* Mutant of ecies_err: the failed transport handshake of a dial is reported
\* as a failed connect.
ecies_err_as_connection_error(id) ==
    /\ pending_tasks[id].pc = "ecies"
    /\ TaskSend(id, IF pending_tasks[id].direction.out
                    THEN PendingSessionEvent("OutgoingConnectionError", id,
                                             pending_tasks[id].direction.peer,
                                             pending_tasks[id].direction, "Io")
                    ELSE PendingSessionEvent("EciesAuthError", id, NoPeer,
                                             pending_tasks[id].direction, "ECIESError"),
                "send")
    /\ TaskFrame

\* authenticate: get_ecies_stream failed.
ecies_err(id) ==
    /\ pending_tasks[id].pc = "ecies"
    /\ TaskSend(id, PendingSessionEvent("EciesAuthError", id, NoPeer,
                                        pending_tasks[id].direction, "ECIESError"), "send")
    /\ TaskFrame

\* Mutant of auth_done: the select prefers the handshake future, so a ready
\* handshake result wins over a cancel signal that is already there.
auth_done_unbiased(id) ==
    /\ pending_tasks[id].pc = "auth"
    /\ \E res \in AuthResults(id, pending_tasks[id].direction) : TaskSend(id, res, "send")
    /\ TaskFrame

\* authenticate, Either::Right: authenticate_stream resolved first.
auth_done(id) ==
    /\ pending_tasks[id].pc = "auth"
    /\ ~pending_tasks[id].cancelled
    /\ \E res \in AuthResults(id, pending_tasks[id].direction) : TaskSend(id, res, "send")
    /\ TaskFrame

\* authenticate, Either::Left: disconnect_rx resolved first.
auth_cancelled(id) ==
    /\ pending_tasks[id].pc = "auth"
    /\ pending_tasks[id].cancelled
    /\ TaskSend(id, PendingSessionEvent("Disconnected", id, NoPeer,
                                        pending_tasks[id].direction, "None"), "send")
    /\ TaskFrame

\* A suspended events.send(..) completes once the channel has capacity.
send_ready(id) ==
    /\ pending_tasks[id].pc \in {"send", "send_timeout"}
    /\ HasCapacity(pending_session_rx)
    /\ TaskSend(id, pending_tasks[id].res, pending_tasks[id].pc)
    /\ TaskFrame

\* Mutant of timeout_elapsed: the timer is not tied to the inner future and
\* also fires after the future has reported.
timeout_elapsed_late(id) ==
    /\ pending_tasks[id].pc \in {"connect", "ecies", "auth", "send", "done"}
    /\ HasCapacity(pending_session_rx)
    /\ pending_tasks[id].sent < 2
    /\ pending_session_rx' = Append(pending_session_rx,
           PendingSessionEvent("Disconnected", id, NoPeer, pending_tasks[id].direction,
                               "Timeout"))
    /\ pending_tasks' = [pending_tasks EXCEPT ![id] = FinishedTask(@.sent + 1)]
    /\ TaskFrame

\* Mutant of timeout_elapsed: the inner future is not dropped when the timeout
\* fires during the send of its result, so the result is still sent later.
timeout_elapsed_keeps_result(id) ==
    /\ pending_tasks[id].pc \in {"connect", "ecies", "auth", "send"}
    /\ IF pending_tasks[id].pc = "send"
       THEN /\ HasCapacity(pending_session_rx)
            /\ pending_session_rx' = Append(pending_session_rx,
                   PendingSessionEvent("Disconnected", id, NoPeer,
                                       pending_tasks[id].direction, "Timeout"))
            /\ pending_tasks' = [pending_tasks EXCEPT ![id].sent = @ + 1]
       ELSE TaskSend(id, PendingSessionEvent("Disconnected", id, NoPeer,
                                             pending_tasks[id].direction, "Timeout"),
                     "send_timeout")
    /\ TaskFrame

\* Mutant of timeout_elapsed: the timeout only covers the select in
\* authenticate, not the connect and the transport handshake before it.
timeout_elapsed_auth_only(id) ==
    /\ pending_tasks[id].pc \in {"auth", "send"}
    /\ TaskSend(id, PendingSessionEvent("Disconnected", id, NoPeer,
                                        pending_tasks[id].direction, "Timeout"),
                "send_timeout")
    /\ TaskFrame

\* pending_session_with_timeout: the timeout elapses while the inner future is
\* suspended; the inner future is dropped and the Timeout event is sent.
timeout_elapsed(id) ==
    /\ pending_tasks[id].pc \in {"connect", "ecies", "auth", "send"}
    /\ TaskSend(id, PendingSessionEvent("Disconnected", id, NoPeer,
                                        pending_tasks[id].direction, "Timeout"),
                "send_timeout")
    /\ TaskFrame

\* ------------------------------------------- the handshake, step by step
\* The future authenticate builds for one connection, without the select on
\* disconnect_rx and the timeout around it, which the pending tasks above
\* carry: get_ecies_stream, the p2p hello handshake, the check of the extra
\* handlers, the eth version, the status handshake.
ExtraCaps == {"a", "b", "c"}

OnNotSupported == {"Disconnect", "NoAction"}

\* RlpxSubProtocolHandlers the manager can hand to a connection: a registry
\* of handlers, one per capability, in any order.
HandlerLists ==
    {hs \in UNION {[1..n -> [cap : ExtraCaps, on_unsupported : OnNotSupported]] :
                      n \in 0..MaxHandlers} :
        \A i, j \in 1..Len(hs) : i # j => hs[i].cap # hs[j].cap}

HandlerCaps(handlers) == {handlers[i].cap : i \in 1..Len(handlers)}

\* What stream.handshake(hello) can resolve to once the handlers' protocols
\* were added to the hello: an error, or the remote's hello with its id and
\* the capabilities shared with ours.
HelloResultsFor(handlers) ==
    {[ok |-> FALSE, id |-> NoPeer, shared |-> {}]}
    \cup {[ok |-> TRUE, id |-> p, shared |-> sh] :
             p \in Peers, sh \in SUBSET ({"eth"} \cup HandlerCaps(handlers))}

HandshakeFrame == UNCHANGED <<session_state, stream_state, status, local_range_info,
                              disconnections_counter, graceful_disconnects>>

\* The step the future is at has been made with this outcome.
Step(call, ok) == Append(handshake.steps, [call |-> call, ok |-> ok])

\* The future returns ev.
HandshakeEnds(call, ev) ==
    handshake' = [handshake EXCEPT !.pc = "done", !.steps = Step(call, FALSE), !.event = ev]

\* authenticate is entered for a connection.
authenticate(session_id, direction, extra_handlers) ==
    /\ handshake.pc = "none"
    /\ handshake' = [NoHandshake EXCEPT
           !.pc = "get_ecies_stream", !.session_id = session_id, !.direction = direction,
           !.registered = extra_handlers, !.extra_handlers = extra_handlers]
    /\ ret' = NoRet
    /\ HandshakeFrame

\* authenticate: get_ecies_stream resolves; on Err the EciesAuthError event
\* is sent.
hs_get_ecies_stream(ok) ==
    /\ handshake.pc = "get_ecies_stream"
    /\ IF ok
       THEN handshake' = [handshake EXCEPT
                !.pc = "handshake", !.steps = Step("get_ecies_stream", TRUE)]
       ELSE HandshakeEnds("get_ecies_stream",
                PendingSessionEvent("EciesAuthError", handshake.session_id, NoPeer,
                                    handshake.direction, "ECIESError"))
    /\ ret' = NoRet
    /\ HandshakeFrame

\* authenticate_stream: stream.handshake(hello) resolves.
hs_hello(their_hello) ==
    /\ handshake.pc = "handshake"
    /\ their_hello \in HelloResultsFor(handshake.extra_handlers)
    /\ IF their_hello.ok
       THEN handshake' = [handshake EXCEPT
                !.pc = "extra_handlers", !.steps = Step("handshake", TRUE),
                !.their_hello = their_hello]
       ELSE HandshakeEnds("handshake",
                PendingSessionEvent("Disconnected", handshake.session_id, NoPeer,
                                    handshake.direction, "Eth"))
    /\ ret' = NoRet
    /\ HandshakeFrame

\* Mutant of hs_extra_handlers: an unsupported handler is dropped whatever
\* its policy.
hs_extra_handlers_all_optional ==
    /\ handshake.pc = "extra_handlers"
    /\ handshake' = [handshake EXCEPT
           !.pc = "eth_version", !.steps = Step("extra_handlers", TRUE),
           !.extra_handlers =
               SelectSeq(handshake.extra_handlers,
                         LAMBDA h : h.cap \in handshake.their_hello.shared)]
    /\ ret' = NoRet
    /\ HandshakeFrame

\* Mutant of hs_extra_handlers: the unsupported handlers stay in the list.
hs_extra_handlers_keeps_unsupported ==
    /\ handshake.pc = "extra_handlers"
    /\ LET r == check_extra_handlers(handshake.extra_handlers, handshake.their_hello.shared) IN
       IF r.ok
       THEN handshake' = [handshake EXCEPT
                !.pc = "eth_version", !.steps = Step("extra_handlers", TRUE)]
       ELSE HandshakeEnds("extra_handlers",
                PendingSessionEvent("Disconnected", handshake.session_id, NoPeer,
                                    handshake.direction, "UnsupportedExtraCapability"))
    /\ ret' = NoRet
    /\ HandshakeFrame

\* authenticate_stream: the loop over the extra handlers.
hs_extra_handlers ==
    /\ handshake.pc = "extra_handlers"
    /\ LET r == check_extra_handlers(handshake.extra_handlers, handshake.their_hello.shared) IN
       IF r.ok
       THEN handshake' = [handshake EXCEPT
                !.pc = "eth_version", !.steps = Step("extra_handlers", TRUE),
                !.extra_handlers = r.handlers]
       ELSE HandshakeEnds("extra_handlers",
                PendingSessionEvent("Disconnected", handshake.session_id, NoPeer,
                                    handshake.direction, "UnsupportedExtraCapability"))
    /\ ret' = NoRet
    /\ HandshakeFrame

\* Mutant of hs_eth_version: the stream is multiplexed whenever the
\* connection was given extra handlers.
hs_eth_version_by_registered ==
    /\ handshake.pc = "eth_version"
    /\ IF "eth" \notin handshake.their_hello.shared
       THEN HandshakeEnds("eth_version",
                PendingSessionEvent("Disconnected", handshake.session_id, NoPeer,
                                    handshake.direction, "Eth"))
       ELSE IF handshake.registered = << >>
       THEN handshake' = [handshake EXCEPT
                !.pc = "status", !.steps = Step("eth_version", TRUE), !.conn = "Direct"]
       ELSE handshake' = [handshake EXCEPT
                !.pc = "status", !.steps = Step("eth_version", TRUE),
                !.conn = "Multiplexed", !.installed = HandlerCaps(handshake.extra_handlers)]
    /\ ret' = NoRet
    /\ HandshakeFrame

\* authenticate_stream: the eth version of the shared capabilities, then the
\* connection for the status exchange: the p2p stream itself if eth is the
\* only shared capability, otherwise a multiplexer over it with every handler
\* still held installed.
hs_eth_version ==
    /\ handshake.pc = "eth_version"
    /\ IF "eth" \notin handshake.their_hello.shared
       THEN HandshakeEnds("eth_version",
                PendingSessionEvent("Disconnected", handshake.session_id, NoPeer,
                                    handshake.direction, "Eth"))
       ELSE IF Cardinality(handshake.their_hello.shared) = 1
       THEN handshake' = [handshake EXCEPT
                !.pc = "status", !.steps = Step("eth_version", TRUE), !.conn = "Direct"]
       ELSE handshake' = [handshake EXCEPT
                !.pc = "status", !.steps = Step("eth_version", TRUE),
                !.conn = "Multiplexed", !.installed = HandlerCaps(handshake.extra_handlers)]
    /\ ret' = NoRet
    /\ HandshakeFrame

\* Mutant of hs_status: a failed status handshake is passed over.
hs_status_ignores_error(ok) ==
    /\ handshake.pc = "status"
    /\ handshake' = [handshake EXCEPT
           !.pc = "done", !.steps = Step("status", ok),
           !.event = PendingSessionEvent("Established", handshake.session_id,
                                         handshake.their_hello.id, handshake.direction,
                                         "None")]
    /\ ret' = NoRet
    /\ HandshakeFrame

\* authenticate_stream: the status handshake resolves, over the p2p stream
\* (handshake.handshake) or over the multiplexer (into_eth_satellite_stream).
hs_status(ok) ==
    /\ handshake.pc = "status"
    /\ IF ok
       THEN handshake' = [handshake EXCEPT
                !.pc = "done", !.steps = Step("status", TRUE),
                !.event = PendingSessionEvent("Established", handshake.session_id,
                                              handshake.their_hello.id, handshake.direction,
                                              "None")]
       ELSE HandshakeEnds("status",
                PendingSessionEvent("Disconnected", handshake.session_id, NoPeer,
                                    handshake.direction, "Eth"))
    /\ ret' = NoRet
    /\ HandshakeFrame

\* --------------------------------------------------- active session tasks
\* The spawned ActiveSession future (session/active.rs) reports to the manager
\* over active_session_tx: any number of ValidMessage / BadMessage /
\* ProtocolBreach, then one closing message as it terminates.
session_message(s, type) ==
    /\ s \in sessions
    /\ HasCapacity(active_session_rx)
    /\ active_session_rx' = Append(active_session_rx, ActiveSessionMessage(type, s.peer_id))
    /\ ret' = NoRet
    /\ UNCHANGED <<next_id, counter, pending_sessions, active_sessions, pending_session_rx,
                   pending_tasks, sessions, commands_to_session,
                   total_outgoing_peer_messages_dropped, issued, retired, side_state>>

session_close(s, type) ==
    /\ s \in sessions
    /\ HasCapacity(active_session_rx)
    /\ active_session_rx' = Append(active_session_rx, ActiveSessionMessage(type, s.peer_id))
    /\ sessions' = sessions \ {s}
    /\ ret' = NoRet
    /\ UNCHANGED <<next_id, counter, pending_sessions, active_sessions, pending_session_rx,
                   pending_tasks, commands_to_session,
                   total_outgoing_peer_messages_dropped, issued, retired, side_state>>

\* ------------------------------------------------------------------ poll
\* Mutant of poll_active: a closing message is forwarded like the others, the
\* handle is not removed.
poll_active_no_remove ==
    /\ active_session_rx # << >>
    /\ LET event == Head(active_session_rx) IN
       /\ active_session_rx' = Tail(active_session_rx)
       /\ ret' = Ret("poll", TRUE, NoId,
                     SessionEvent(IF event.type = "ClosedOnConnectionError"
                                  THEN "SessionClosedOnConnectionError" ELSE event.type,
                                  event.peer_id, Incoming, "None"))
    /\ UNCHANGED <<next_id, counter, pending_sessions, active_sessions, pending_session_rx,
                   pending_tasks, sessions, commands_to_session,
                   total_outgoing_peer_messages_dropped, issued, retired, side_state>>

\* Mutant of poll_active: a ProtocolBreach closes the session like a
\* connection error.
poll_active_breach_closes ==
    /\ active_session_rx # << >>
    /\ LET event == Head(active_session_rx) IN
       /\ active_session_rx' = Tail(active_session_rx)
       /\ IF event.type \in {"Disconnected", "ClosedOnConnectionError", "ProtocolBreach"}
          THEN LET r == remove_active_session(active_sessions, counter, event.peer_id) IN
               /\ active_sessions' = r.active_sessions
               /\ counter' = r.counter
               /\ commands_to_session' = CommandsRemove(commands_to_session, event.peer_id)
               /\ ret' = Ret("poll", TRUE, NoId,
                             SessionEvent(IF event.type = "ClosedOnConnectionError"
                                          THEN "SessionClosedOnConnectionError"
                                          ELSE event.type,
                                          event.peer_id, Incoming, "None"))
          ELSE /\ ret' = Ret("poll", TRUE, NoId,
                             SessionEvent(event.type, event.peer_id, Incoming, "None"))
               /\ UNCHANGED <<active_sessions, counter, commands_to_session>>
    /\ UNCHANGED <<next_id, pending_sessions, pending_session_rx, pending_tasks, sessions,
                   total_outgoing_peer_messages_dropped, issued, retired, side_state>>

\* poll, an ActiveSessionMessage is ready.
poll_active ==
    /\ active_session_rx # << >>
    /\ LET event == Head(active_session_rx) IN
       /\ active_session_rx' = Tail(active_session_rx)
       /\ IF event.type \in {"Disconnected", "ClosedOnConnectionError"}
          THEN LET r == remove_active_session(active_sessions, counter, event.peer_id) IN
               /\ active_sessions' = r.active_sessions
               /\ counter' = r.counter
               /\ commands_to_session' = CommandsRemove(commands_to_session, event.peer_id)
               /\ closed_absent' = ~ActiveContainsKey(active_sessions, event.peer_id)
               /\ ret' = Ret("poll", TRUE, NoId,
                             SessionEvent(IF event.type = "Disconnected" THEN "Disconnected"
                                          ELSE "SessionClosedOnConnectionError",
                                          event.peer_id, Incoming, "None"))
          ELSE /\ ret' = Ret("poll", TRUE, NoId,
                             SessionEvent(event.type, event.peer_id, Incoming, "None"))
               /\ UNCHANGED <<active_sessions, counter, commands_to_session, closed_absent>>
    /\ UNCHANGED <<next_id, pending_sessions, pending_session_rx, pending_tasks, sessions,
                   total_outgoing_peer_messages_dropped, issued, retired, poll_state>>

\* Mutant of on_established: no check for an existing session to the peer.
on_established_no_check(event) ==
    LET r == remove_pending_session(pending_sessions, counter, event.session_id) IN
    /\ pending_sessions' = r.pending_sessions
    /\ sessions' = sessions \cup {ActiveSession(event.session_id, event.peer_id, local_range_info)}
    /\ active_sessions' = ActiveInsert(active_sessions,
            ActiveSessionHandle(event.session_id, event.peer_id, event.direction))
    /\ commands_to_session' = CommandsInsert(commands_to_session, event.peer_id)
    /\ counter' = inc_active(r.counter, event.direction)
    /\ ret' = Ret("poll", TRUE, NoId,
                  SessionEvent("SessionEstablished", event.peer_id, event.direction, "None"))

\* Mutant of on_established: on a collision the existing session is the one
\* dropped and the new connection takes its place.
on_established_evict(event) ==
    LET r == remove_pending_session(pending_sessions, counter, event.session_id)
        old == remove_active_session(active_sessions, r.counter, event.peer_id)
    IN
    /\ pending_sessions' = r.pending_sessions
    /\ sessions' = {x \in sessions : x.peer_id # event.peer_id} \cup
                        {ActiveSession(event.session_id, event.peer_id, local_range_info)}
    /\ active_sessions' = ActiveInsert(old.active_sessions,
            ActiveSessionHandle(event.session_id, event.peer_id, event.direction))
    /\ commands_to_session' = CommandsInsert(commands_to_session, event.peer_id)
    /\ counter' = inc_active(old.counter, event.direction)
    /\ ret' = Ret("poll", TRUE, NoId,
                  SessionEvent(IF ActiveContainsKey(active_sessions, event.peer_id)
                               THEN "AlreadyConnected" ELSE "SessionEstablished",
                               event.peer_id, event.direction, "None"))

\* Mutant of on_established: the handle is inserted but no ActiveSession task
\* is spawned for it.
on_established_no_spawn(event) ==
    LET r == remove_pending_session(pending_sessions, counter, event.session_id) IN
    /\ pending_sessions' = r.pending_sessions
    /\ IF ActiveContainsKey(active_sessions, event.peer_id)
       THEN /\ counter' = r.counter
            /\ ret' = Ret("poll", TRUE, NoId,
                          SessionEvent("AlreadyConnected", event.peer_id, event.direction, "None"))
            /\ UNCHANGED <<active_sessions, sessions, commands_to_session>>
       ELSE /\ commands_to_session' = CommandsInsert(commands_to_session, event.peer_id)
            /\ sessions' = sessions
            /\ active_sessions' = ActiveInsert(active_sessions,
                    ActiveSessionHandle(event.session_id, event.peer_id, event.direction))
            /\ counter' = inc_active(r.counter, event.direction)
            /\ ret' = Ret("poll", TRUE, NoId,
                          SessionEvent("SessionEstablished", event.peer_id, event.direction, "None"))

\* Mutant of on_established: the active slot is taken from the inbound
\* counter whatever the direction of the event.
on_established_counts_inbound(event) ==
    LET r == remove_pending_session(pending_sessions, counter, event.session_id) IN
    /\ pending_sessions' = r.pending_sessions
    /\ IF ActiveContainsKey(active_sessions, event.peer_id)
       THEN /\ counter' = r.counter
            /\ ret' = Ret("poll", TRUE, NoId,
                          SessionEvent("AlreadyConnected", event.peer_id, event.direction, "None"))
            /\ UNCHANGED <<active_sessions, sessions, commands_to_session>>
       ELSE /\ commands_to_session' = CommandsInsert(commands_to_session, event.peer_id)
            /\ sessions' = sessions \cup
                    {ActiveSession(event.session_id, event.peer_id, local_range_info)}
            /\ active_sessions' = ActiveInsert(active_sessions,
                    ActiveSessionHandle(event.session_id, event.peer_id, event.direction))
            /\ counter' = inc_active(r.counter, Incoming)
            /\ ret' = Ret("poll", TRUE, NoId,
                          SessionEvent("SessionEstablished", event.peer_id, event.direction, "None"))

\* Mutant of on_established: a session that was asked to disconnect and has
\* not yet taken the command gives way to the new connection to its peer.
on_established_replaces_closing(event) ==
    LET r == remove_pending_session(pending_sessions, counter, event.session_id)
        old == remove_active_session(active_sessions, r.counter, event.peer_id)
        closing == /\ event.peer_id \in DOMAIN commands_to_session
                   /\ commands_to_session[event.peer_id] # << >>
                   /\ Head(commands_to_session[event.peer_id]) = "Disconnect"
    IN
    /\ pending_sessions' = r.pending_sessions
    /\ IF ActiveContainsKey(active_sessions, event.peer_id) /\ ~closing
       THEN /\ counter' = r.counter
            /\ ret' = Ret("poll", TRUE, NoId,
                          SessionEvent("AlreadyConnected", event.peer_id, event.direction, "None"))
            /\ UNCHANGED <<active_sessions, sessions, commands_to_session>>
       ELSE /\ commands_to_session' = CommandsInsert(commands_to_session, event.peer_id)
            /\ sessions' = {x \in sessions : x.peer_id # event.peer_id} \cup
                    {ActiveSession(event.session_id, event.peer_id, local_range_info)}
            /\ active_sessions' = ActiveInsert(old.active_sessions,
                    ActiveSessionHandle(event.session_id, event.peer_id, event.direction))
            /\ counter' = inc_active(old.counter, event.direction)
            /\ ret' = Ret("poll", TRUE, NoId,
                          SessionEvent("SessionEstablished", event.peer_id, event.direction, "None"))

\* poll, PendingSessionEvent::Established
on_established(event) ==
    LET r == remove_pending_session(pending_sessions, counter, event.session_id) IN
    /\ pending_sessions' = r.pending_sessions
    /\ IF ActiveContainsKey(active_sessions, event.peer_id)
       THEN /\ counter' = r.counter
            /\ ret' = Ret("poll", TRUE, NoId,
                          SessionEvent("AlreadyConnected", event.peer_id, event.direction, "None"))
            /\ UNCHANGED <<active_sessions, sessions, commands_to_session>>
       ELSE /\ commands_to_session' = CommandsInsert(commands_to_session, event.peer_id)
            /\ sessions' = sessions \cup
                    {ActiveSession(event.session_id, event.peer_id, local_range_info)}
            /\ active_sessions' = ActiveInsert(active_sessions,
                    ActiveSessionHandle(event.session_id, event.peer_id, event.direction))
            /\ counter' = inc_active(r.counter, event.direction)
            /\ ret' = Ret("poll", TRUE, NoId,
                          SessionEvent("SessionEstablished", event.peer_id, event.direction, "None"))

\* PendingSessionHandshakeError::Ecies(error): the wrapped transport error.
PendingSessionHandshakeError_Ecies(error) == "Ecies"

\* Mutant of on_pending_closed: the failure of one attempt closes every
\* pending session of its direction.
on_pending_closed_closes_direction(event) ==
    LET out == event.direction.out
        kept == {i \in DOMAIN pending_sessions : pending_sessions[i].direction.out # out}
    IN
    /\ pending_sessions' = [i \in kept |-> pending_sessions[i]]
    /\ counter' = IF out THEN [counter EXCEPT !.pending_outbound = 0]
                  ELSE [counter EXCEPT !.pending_inbound = 0]
    /\ ret' = Ret("poll", TRUE, NoId,
                  IF event.type = "OutgoingConnectionError"
                  THEN SessionEvent("OutgoingConnectionError", event.peer_id, Incoming,
                                    event.error)
                  ELSE IF out
                  THEN SessionEvent("OutgoingPendingSessionClosed", event.direction.peer,
                                    Incoming, event.error)
                  ELSE SessionEvent("IncomingPendingSessionClosed", NoPeer, Incoming,
                                    event.error))
    /\ UNCHANGED <<active_sessions, sessions, commands_to_session>>

\* Mutant of on_pending_closed: the event is surfaced and the handle stays.
on_pending_closed_keeps_handle(event) ==
    /\ ret' = Ret("poll", TRUE, NoId,
                  IF event.type = "OutgoingConnectionError"
                  THEN SessionEvent("OutgoingConnectionError", event.peer_id, Incoming,
                                    event.error)
                  ELSE IF event.direction.out
                  THEN SessionEvent("OutgoingPendingSessionClosed", event.direction.peer,
                                    Incoming, event.error)
                  ELSE SessionEvent("IncomingPendingSessionClosed", NoPeer, Incoming,
                                    event.error))
    /\ UNCHANGED <<pending_sessions, counter, active_sessions, sessions,
                   commands_to_session>>

\* Mutant of on_pending_closed: the closure of a pending session is surfaced
\* without the error of the event.
on_pending_closed_drops_error(event) ==
    LET r == remove_pending_session(pending_sessions, counter, event.session_id) IN
    /\ pending_sessions' = r.pending_sessions
    /\ counter' = r.counter
    /\ ret' = Ret("poll", TRUE, NoId,
                  IF event.type = "OutgoingConnectionError"
                  THEN SessionEvent("OutgoingConnectionError", event.peer_id, Incoming,
                                    event.error)
                  ELSE IF event.direction.out
                  THEN SessionEvent("OutgoingPendingSessionClosed", event.direction.peer,
                                    Incoming, "None")
                  ELSE SessionEvent("IncomingPendingSessionClosed", NoPeer, Incoming, "None"))
    /\ UNCHANGED <<active_sessions, sessions, commands_to_session>>

\* poll, PendingSessionEvent::Disconnected / OutgoingConnectionError / EciesAuthError
on_pending_closed(event) ==
    LET r == remove_pending_session(pending_sessions, counter, event.session_id) IN
    /\ pending_sessions' = r.pending_sessions
    /\ counter' = r.counter
    /\ ret' = Ret("poll", TRUE, NoId,
                  LET error == IF event.type = "EciesAuthError"
                               THEN PendingSessionHandshakeError_Ecies(event.error)
                               ELSE event.error
                  IN IF event.type = "OutgoingConnectionError"
                     THEN SessionEvent("OutgoingConnectionError", event.peer_id, Incoming,
                                       event.error)
                     ELSE IF event.direction.out
                     THEN SessionEvent("OutgoingPendingSessionClosed", event.direction.peer,
                                       Incoming, error)
                     ELSE SessionEvent("IncomingPendingSessionClosed", NoPeer, Incoming, error))
    /\ UNCHANGED <<active_sessions, sessions, commands_to_session>>

\* poll, the pending-event stream has a ready PendingSessionEvent.
poll_pending ==
    /\ pending_session_rx # << >>
    /\ LET event == Head(pending_session_rx) IN
       /\ pending_session_rx' = Tail(pending_session_rx)
       /\ retired' = [retired EXCEPT ![event.session_id] = @ + 1]
       /\ IF event.type = "Established"
          THEN on_established(event)
          ELSE on_pending_closed(event)
    /\ UNCHANGED <<next_id, active_session_rx, pending_tasks,
                   total_outgoing_peer_messages_dropped, issued, side_state>>

\* Mutant of poll_idle: Poll::Pending is returned as soon as the
\* active-session channel is empty.
poll_idle_ignores_pending ==
    /\ active_session_rx = << >>
    /\ ret' = Ret("poll", FALSE, NoId, NoEvent)
    /\ UNCHANGED <<next_id, counter, pending_sessions, active_sessions, pending_session_rx,
                   active_session_rx, pending_tasks, sessions, commands_to_session,
                   total_outgoing_peer_messages_dropped, issued, retired, side_state>>

\* poll, neither channel has a ready message: Poll::Pending.
poll_idle ==
    /\ active_session_rx = << >>
    /\ pending_session_rx = << >>
    /\ ret' = Ret("poll", FALSE, NoId, NoEvent)
    /\ UNCHANGED <<next_id, counter, pending_sessions, active_sessions, pending_session_rx,
                   active_session_rx, pending_tasks, sessions, commands_to_session,
                   total_outgoing_peer_messages_dropped, issued, retired, side_state>>

\* Mutant of poll: the pending-event stream is polled first.
poll_pending_first ==
    \/ poll_pending
    \/ (pending_session_rx = << >> /\ poll_active)
    \/ poll_idle

\* SessionManager::poll: the active-session stream is polled first; the
\* pending-event stream only when the first returned Poll::Pending.
poll ==
    \/ poll_active
    \/ (active_session_rx = << >> /\ poll_pending)
    \/ poll_idle

\* Mutant of disconnect_all_pending: the handle keeps its sender, so every
\* call signals every pending session again.
disconnect_all_pending_keeps_sender ==
    /\ pending_sessions' = pending_sessions
    /\ pending_tasks' =
           [i \in DOMAIN pending_tasks |->
               IF /\ i \in DOMAIN pending_sessions
                  /\ pending_tasks[i].pc \in {"connect", "ecies", "auth"}
               THEN [pending_tasks[i] EXCEPT !.cancelled = TRUE]
               ELSE pending_tasks[i]]
    /\ ret' = Ret("disconnect_all_pending", TRUE, NoId, NoEvent)
    /\ UNCHANGED <<next_id, counter, active_sessions, pending_session_rx, active_session_rx,
                   sessions, commands_to_session, total_outgoing_peer_messages_dropped,
                   issued, retired, side_state>>

\* SessionManager::disconnect_all_pending: PendingSessionHandle::disconnect
\* takes disconnect_tx and fires the oneshot; only a future that has not yet
\* left the select in authenticate can see it.
disconnect_all_pending ==
    /\ pending_sessions' =
           [i \in DOMAIN pending_sessions |-> [pending_sessions[i] EXCEPT !.disconnect_tx = FALSE]]
    /\ pending_tasks' =
           [i \in DOMAIN pending_tasks |->
               IF /\ i \in DOMAIN pending_sessions
                  /\ pending_sessions[i].disconnect_tx
                  /\ pending_tasks[i].pc \in {"connect", "ecies", "auth"}
               THEN [pending_tasks[i] EXCEPT !.cancelled = TRUE]
               ELSE pending_tasks[i]]
    /\ ret' = Ret("disconnect_all_pending", TRUE, NoId, NoEvent)
    /\ UNCHANGED <<next_id, counter, active_sessions, pending_session_rx, active_session_rx,
                   sessions, commands_to_session, total_outgoing_peer_messages_dropped,
                   issued, retired, side_state>>

\* ------------------------------------------------------ session commands
\* mpsc::Sender::try_send on a command channel: the command is queued while
\* fewer than session_command_buffer are waiting, otherwise the call returns
\* TrySendError::Full and the queue is as before.
try_send(queue, command) ==
    IF Len(queue) < session_command_buffer
    THEN [queue |-> Append(queue, command), full |-> FALSE]
    ELSE [queue |-> queue, full |-> TRUE]

\* ActiveSessionHandle::disconnect (session/handle.rs): best-effort notice to
\* the session's command channel, the outcome is ignored.
handle_disconnect(queue) == try_send(queue, "Disconnect").queue

\* A manager call that returns nothing: the record keeps its name and the
\* peer id it was made with.
Call(op, peer_id) == Ret(op, TRUE, NoId, SessionEvent("None", peer_id, Incoming, "None"))

\* What disconnect, disconnect_all and send_message leave alone.
CommandFrame ==
    UNCHANGED <<next_id, counter, pending_sessions, active_sessions, pending_session_rx,
                active_session_rx, pending_tasks, sessions, issued, retired, side_state>>

\* Mutant of disconnect: the handle is removed at once instead of waiting for
\* the session to report its end.
disconnect_removes(node) ==
    /\ LET r == remove_active_session(active_sessions, counter, node) IN
       /\ active_sessions' = r.active_sessions
       /\ counter' = r.counter
       /\ commands_to_session' = CommandsRemove(commands_to_session, node)
    /\ ret' = Call("disconnect", node)
    /\ UNCHANGED <<next_id, pending_sessions, pending_session_rx, active_session_rx,
                   pending_tasks, sessions, total_outgoing_peer_messages_dropped,
                   issued, retired, side_state>>

\* SessionManager::disconnect
disconnect(node) ==
    /\ IF ActiveContainsKey(active_sessions, node)
       THEN commands_to_session' =
                [commands_to_session EXCEPT ![node] = handle_disconnect(@)]
       ELSE UNCHANGED commands_to_session
    /\ ret' = Call("disconnect", node)
    /\ UNCHANGED total_outgoing_peer_messages_dropped
    /\ CommandFrame

\* SessionManager::disconnect_all
disconnect_all ==
    /\ commands_to_session' =
           [p \in DOMAIN commands_to_session |-> handle_disconnect(commands_to_session[p])]
    /\ ret' = Call("disconnect_all", NoPeer)
    /\ UNCHANGED total_outgoing_peer_messages_dropped
    /\ CommandFrame

\* Mutant of send_message: a message that finds the buffer full is queued
\* beyond the bound instead of being dropped.
send_message_unbounded(peer_id) ==
    /\ IF ActiveContainsKey(active_sessions, peer_id)
       THEN /\ Len(commands_to_session[peer_id]) <= session_command_buffer
            /\ commands_to_session' =
                   [commands_to_session EXCEPT ![peer_id] = Append(@, "Message")]
       ELSE UNCHANGED commands_to_session
    /\ ret' = Call("send_message", peer_id)
    /\ UNCHANGED total_outgoing_peer_messages_dropped
    /\ CommandFrame

\* SessionManager::send_message
send_message(peer_id) ==
    /\ IF ActiveContainsKey(active_sessions, peer_id)
       THEN LET r == try_send(commands_to_session[peer_id], "Message") IN
            /\ commands_to_session' = [commands_to_session EXCEPT ![peer_id] = r.queue]
            /\ IF r.full
               THEN /\ total_outgoing_peer_messages_dropped < MaxDropped
                    /\ total_outgoing_peer_messages_dropped' =
                           total_outgoing_peer_messages_dropped + 1
               ELSE UNCHANGED total_outgoing_peer_messages_dropped
       ELSE UNCHANGED <<commands_to_session, total_outgoing_peer_messages_dropped>>
    /\ ret' = Call("send_message", peer_id)
    /\ CommandFrame

\* The ActiveSession task (session/active.rs) takes the next command from its
\* commands_rx.
session_command(s) ==
    /\ s \in sessions
    /\ s.peer_id \in DOMAIN commands_to_session
    /\ commands_to_session[s.peer_id] # << >>
    /\ commands_to_session' = [commands_to_session EXCEPT ![s.peer_id] = Tail(@)]
    /\ ret' = NoRet
    /\ UNCHANGED total_outgoing_peer_messages_dropped
    /\ CommandFrame

\* ------------------------------------------------- disconnection limiter
\* DisconnectionsCounter::MAX_CONCURRENT_GRACEFUL_DISCONNECTIONS
MAX_CONCURRENT_GRACEFUL_DISCONNECTIONS == 15

\* Mutant of has_capacity: the manager's own handle is not counted.
has_capacity_guards_only(strong_count) ==
    strong_count - 1 <= MAX_CONCURRENT_GRACEFUL_DISCONNECTIONS

\* DisconnectionsCounter::has_capacity: the strong count of the Arc, the
\* manager's own handle included, is at most the maximum.
has_capacity(strong_count) == strong_count <= MAX_CONCURRENT_GRACEFUL_DISCONNECTIONS

\* What the limiter's call and its tasks leave alone.
LimiterFrame ==
    UNCHANGED <<session_state, stream_state, status, local_range_info, handshake>>

\* A step of a graceful-disconnect task: the awaited call that resolved and
\* whether it resolved to Ok.
Resolved(call, ok) == Ret(call, ok, NoId, NoEvent)

\* Mutant of try_disconnect_incoming_connection: the task is spawned without
\* asking the limiter.
try_disconnect_incoming_connection_unchecked ==
    /\ disconnections_counter <= MAX_CONCURRENT_GRACEFUL_DISCONNECTIONS + 1
    /\ disconnections_counter' = disconnections_counter + 1
    /\ graceful_disconnects' = [graceful_disconnects EXCEPT !.get_ecies_stream = @ + 1]
    /\ ret' = Ret("try_disconnect_incoming_connection", TRUE, NoId, NoEvent)
    /\ LimiterFrame

\* SessionManager::try_disconnect_incoming_connection; the call returns
\* nothing, ok records whether it spawned the task.  The guard is a clone of
\* the counter, moved into the spawned future.
try_disconnect_incoming_connection ==
    /\ IF ~has_capacity(disconnections_counter)
       THEN /\ ret' = Ret("try_disconnect_incoming_connection", FALSE, NoId, NoEvent)
            /\ UNCHANGED <<disconnections_counter, graceful_disconnects>>
       ELSE /\ disconnections_counter' = disconnections_counter + 1
            /\ graceful_disconnects' = [graceful_disconnects EXCEPT !.get_ecies_stream = @ + 1]
            /\ ret' = Ret("try_disconnect_incoming_connection", TRUE, NoId, NoEvent)
    /\ LimiterFrame

\* The spawned task: get_ecies_stream resolved to Ok, send_disconnect starts.
graceful_ecies_ok ==
    /\ graceful_disconnects.get_ecies_stream > 0
    /\ graceful_disconnects' = [graceful_disconnects EXCEPT
           !.get_ecies_stream = @ - 1, !.send_disconnect = @ + 1]
    /\ ret' = Resolved("get_ecies_stream", TRUE)
    /\ UNCHANGED disconnections_counter
    /\ LimiterFrame

\* Mutant of graceful_ecies_err: the guard outlives the task that failed.
graceful_ecies_err_keeps_guard ==
    /\ graceful_disconnects.get_ecies_stream > 0
    /\ graceful_disconnects' = [graceful_disconnects EXCEPT !.get_ecies_stream = @ - 1]
    /\ ret' = Resolved("get_ecies_stream", FALSE)
    /\ UNCHANGED disconnections_counter
    /\ LimiterFrame

\* The spawned task: get_ecies_stream resolved to Err; the future ends and
\* the guard it captured is dropped with it.
graceful_ecies_err ==
    /\ graceful_disconnects.get_ecies_stream > 0
    /\ graceful_disconnects' = [graceful_disconnects EXCEPT !.get_ecies_stream = @ - 1]
    /\ disconnections_counter' = disconnections_counter - 1
    /\ ret' = Resolved("get_ecies_stream", FALSE)
    /\ LimiterFrame

\* The spawned task: send_disconnect resolved, its result is ignored, then
\* drop(guard) and the future ends.
graceful_sent(ok) ==
    /\ graceful_disconnects.send_disconnect > 0
    /\ graceful_disconnects' = [graceful_disconnects EXCEPT !.send_disconnect = @ - 1]
    /\ disconnections_counter' = disconnections_counter - 1
    /\ ret' = Resolved("send_disconnect", ok)
    /\ LimiterFrame

\* -------------------------------------------------- advertised block range
\* The updates the node reports as its chain advances.
BlockRangeUpdates == {BlockRangeUpdate(0, 1, 1), BlockRangeUpdate(1, 2, 2)}

\* BlockRangeInfo::update: the shared snapshot is replaced by the three
\* values.
BlockRangeInfo_update(info, earliest, latest, latest_hash) ==
    BlockRangeUpdate(earliest, latest, latest_hash)

\* A manager call that returns nothing: the record keeps its name and the
\* argument it was made with.
CallWith(op, arg) == [op |-> op, ok |-> TRUE, id |-> NoId, ev |-> NoEvent, arg |-> arg]

\* Mutant of update_advertised_block_range: the hash is left as it was.
update_advertised_block_range_keeps_hash(block_range_update) ==
    /\ status' = [status EXCEPT !.earliest = block_range_update.earliest,
                                !.latest = block_range_update.latest]
    /\ local_range_info' =
           BlockRangeInfo_update(local_range_info, block_range_update.earliest,
                                 block_range_update.latest, local_range_info.latest_hash)
    /\ ret' = CallWith("update_advertised_block_range", block_range_update)
    /\ UNCHANGED <<session_state, stream_state, disconnections_counter,
                   graceful_disconnects, handshake>>

\* SessionManager::update_advertised_block_range
update_advertised_block_range(block_range_update) ==
    /\ status' = [status EXCEPT !.earliest = block_range_update.earliest,
                                !.latest = block_range_update.latest,
                                !.latest_hash = block_range_update.latest_hash]
    /\ local_range_info' =
           BlockRangeInfo_update(local_range_info, block_range_update.earliest,
                                 block_range_update.latest, block_range_update.latest_hash)
    /\ ret' = CallWith("update_advertised_block_range", block_range_update)
    /\ UNCHANGED <<session_state, stream_state, disconnections_counter,
                   graceful_disconnects, handshake>>

\* ------------------------------------------------ ExEx notification stream
StreamFrame ==
    UNCHANGED <<session_state, ret, status, local_range_info, disconnections_counter,
                graceful_disconnects, handshake, provider, wal_handle>>

\* The notifications the node sends while the ExEx runs: the commit of the
\* first block, of the blocks up to the highest, and the revert of the highest.
LiveNotifications ==
    {ChainCommitted(CanonicalChain(1, 1)), ChainCommitted(CanonicalChain(1, MaxBlock)),
     ChainReverted(CanonicalChain(MaxBlock, MaxBlock))}

\* Sender::send on the stream's channel, when it has room.
send(notification) ==
    /\ ~notifications.closed
    /\ Len(notifications.queue) < MaxNotifications
    /\ notifications' = [notifications EXCEPT !.queue = Append(@, notification)]
    /\ exex_ret' = StreamRet("send", NoNotification, NoItem, "none")
    /\ UNCHANGED <<inner, emitted>>
    /\ StreamFrame

\* The sender is dropped: the channel closes once its queue is read.
close ==
    /\ ~notifications.closed
    /\ notifications' = [notifications EXCEPT !.closed = TRUE]
    /\ exex_ret' = StreamRet("close", NoNotification, NoItem, "none")
    /\ UNCHANGED <<inner, emitted>>
    /\ StreamFrame

\* Receiver::poll_recv: the oldest notification, None once the channel is
\* closed and read, Pending otherwise.
poll_recv(chan) ==
    IF chan.queue # << >>
    THEN [item |-> ReadyOk(Head(chan.queue)), chan |-> [chan EXCEPT !.queue = Tail(@)],
          skipped |-> 0]
    ELSE IF chan.closed THEN [item |-> ReadyNone, chan |-> chan, skipped |-> 0]
    ELSE [item |-> PollPending, chan |-> chan, skipped |-> 0]

\* ExExNotificationsWithoutHead::with_head
ExExNotificationsWithoutHead_with_head(this, head) ==
    WithHead(this.initial_local_head, head)

\* The value set_without_head assigns to inner, which it has replaced by
\* Invalid; at unreachable!() the call panics and Invalid stays.
set_without_head_inner(current) ==
    CASE current.tag = "WithoutHead" -> current
      [] current.tag = "WithHead" -> WithoutHead(current.initial_local_head)
      [] OTHER -> Invalid

\* The value set_with_head assigns to inner, which it has replaced by
\* Invalid; at unreachable!() the call panics and Invalid stays.
set_with_head_inner(current, exex_head) ==
    CASE current.tag = "WithoutHead" ->
             ExExNotificationsWithoutHead_with_head(current, exex_head)
      [] current.tag = "WithHead" -> WithHead(current.initial_local_head, exex_head)
      [] OTHER -> Invalid

\* A stream call that returns nothing, or panics; its source is the arm of
\* its match that ran.
Configured(op, exex_head, current) ==
    StreamRet(op, exex_head, IF current.tag = "Invalid" THEN Panicked ELSE NoItem,
              current.tag)

\* Mutant of set_without_head: a stream with a head is left as replaced.
set_without_head_leaves_invalid(op) ==
    /\ inner' = IF inner.tag = "WithHead" THEN Invalid ELSE set_without_head_inner(inner)
    /\ emitted' = IF inner.tag = "WithoutHead" THEN emitted ELSE {}
    /\ exex_ret' = Configured(op, NoNotification, inner)
    /\ UNCHANGED notifications
    /\ StreamFrame

\* ExExNotifications::set_without_head, called by its own name or through
\* without_head.
set_without_head_as(op) ==
    /\ inner' = set_without_head_inner(inner)
    /\ emitted' = IF inner.tag = "WithoutHead" THEN emitted ELSE {}
    /\ exex_ret' = Configured(op, NoNotification, inner)
    /\ UNCHANGED notifications
    /\ StreamFrame

\* ExExNotifications::set_with_head, called by its own name or through
\* with_head.
set_with_head_as(op, exex_head) ==
    /\ inner' = set_with_head_inner(inner, exex_head)
    /\ emitted' = {}
    /\ exex_ret' = Configured(op, exex_head, inner)
    /\ UNCHANGED notifications
    /\ StreamFrame

set_without_head == set_without_head_as("set_without_head")

set_with_head(exex_head) == set_with_head_as("set_with_head", exex_head)

\* ExExNotifications::without_head
without_head == set_without_head_as("without_head")

\* ExExNotifications::with_head
with_head(exex_head) == set_with_head_as("with_head", exex_head)

\* BlockReader::is_known: the database holds the canonical blocks up to its tip.
is_known(hash) == hash.chain = "canonical" /\ hash.number <= provider.tip

\* WalHandle::get_committed_notification_by_block_hash
get_committed_notification_by_block_hash(hash) ==
    LET found == {chain \in wal_handle : ChainHasBlock(chain, hash)}
    IN IF found = {} THEN NoNotification
       ELSE ChainCommitted(CHOOSE chain \in found : TRUE)

\* The result of check_canonical and the stream as it leaves it.
Checked(ok, notification, this) == [ok |-> ok, notification |-> notification, this |-> this]

\* ExExNotificationsWithHead::check_canonical; io_ok is whether the database
\* and the WAL answer.
check_canonical(this, io_ok) ==
    LET head == this.initial_exex_head.block
        notification == get_committed_notification_by_block_hash(head.hash)
        committed == committed_chain(notification)
        new_exex_head == BlockNumHash(committed.first - 1, committed.parent_hash)
    IN IF ~io_ok THEN Checked(FALSE, NoNotification, this)
       ELSE IF is_known(head.hash) /\ head.number <= this.initial_local_head.number
       THEN Checked(TRUE, NoNotification, this)
       ELSE IF notification = NoNotification
       THEN IF head.number > this.initial_local_head.number
            THEN Checked(TRUE, NoNotification, this)
            ELSE Checked(FALSE, NoNotification, this)
       ELSE Checked(TRUE, into_inverted(notification),
                    [this EXCEPT !.initial_exex_head.block = new_exex_head])

\* ExExNotificationsWithHead::check_backfill
check_backfill(this) ==
    IF this.initial_exex_head.block.number < this.initial_local_head.number
    THEN [this EXCEPT !.backfill_job =
              BackfillJob(this.initial_exex_head.block.number + 1,
                          this.initial_local_head.number)]
    ELSE this

\* The loop of ExExNotificationsWithHead::poll_next over the channel: a
\* committed chain whose tip is not above the head is skipped.
RECURSIVE advance_event_stream(_, _)
advance_event_stream(this, chan) ==
    LET received == poll_recv(chan)
        committed == committed_chain(received.item.notification)
    IN IF received.item.poll = "Pending" \/ ~received.item.some THEN received
       ELSE IF /\ committed # NoChain
               /\ this.initial_exex_head.block.number >= committed.tip
       THEN [advance_event_stream(this, received.chan) EXCEPT !.skipped = @ + 1]
       ELSE received

\* What one poll_next leaves and returns; source is the step that returned.
Outcome(this, chan, item, source) ==
    [inner |-> this, notifications |-> chan, item |-> item, source |-> source,
     skipped |-> 0]

\* The outcome of a poll_next that read the channel.
Received(this, received) ==
    [Outcome(this, received.chan, received.item, "notifications")
        EXCEPT !.skipped = received.skipped]

\* StreamBackfillJob::poll_next for a job with blocks left: not ready, an
\* error, or the chain of the next blocks up to some block of the range.
BackfillJob_poll_next(this) ==
    LET job == this.backfill_job
    IN {[item |-> PollPending, this |-> this], [item |-> ReadyErr, this |-> this]}
       \cup {[item |-> ReadyOk(ChainCommitted(CanonicalChain(job.next, tip))),
              this |-> [this EXCEPT !.backfill_job.next = tip + 1]] :
                 tip \in job.next..job.end}

\* Mutant of ExExNotificationsWithHead_poll_next: the channel is read while
\* the backfill job still has blocks.
ExExNotificationsWithHead_poll_next_live_first(this, chan, io_ok) ==
    LET canonical == check_canonical(this, io_ok)
        this1 == IF this.pending_check_canonical
                 THEN [canonical.this EXCEPT !.pending_check_canonical = FALSE]
                 ELSE this
        this2 == IF this1.pending_check_backfill
                 THEN [check_backfill(this1) EXCEPT !.pending_check_backfill = FALSE]
                 ELSE this1
        live == advance_event_stream(this2, chan)
    IN IF this.pending_check_canonical /\ ~canonical.ok
       THEN {Outcome(this, chan, ReadyErr, "check_canonical")}
       ELSE IF this.pending_check_canonical /\ canonical.notification # NoNotification
       THEN {Outcome(canonical.this, chan, ReadyOk(canonical.notification), "check_canonical")}
       ELSE IF live.item.poll = "Ready"
       THEN {Received(this2, live)}
       ELSE IF this2.backfill_job # NoJob /\ this2.backfill_job.next <= this2.backfill_job.end
       THEN {Outcome(polled.this, chan, polled.item, "backfill_job") :
                 polled \in BackfillJob_poll_next(this2)}
       ELSE {Received([this2 EXCEPT !.backfill_job = NoJob], live)}

\* Mutant of ExExNotificationsWithHead_poll_next: the tip of a committed
\* chain is not compared with the head.
ExExNotificationsWithHead_poll_next_no_skip(this, chan, io_ok) ==
    LET canonical == check_canonical(this, io_ok)
        this1 == IF this.pending_check_canonical
                 THEN [canonical.this EXCEPT !.pending_check_canonical = FALSE]
                 ELSE this
        this2 == IF this1.pending_check_backfill
                 THEN [check_backfill(this1) EXCEPT !.pending_check_backfill = FALSE]
                 ELSE this1
        this3 == [this2 EXCEPT !.backfill_job = NoJob]
        live == poll_recv(chan)
    IN IF this.pending_check_canonical /\ ~canonical.ok
       THEN {Outcome(this, chan, ReadyErr, "check_canonical")}
       ELSE IF this.pending_check_canonical /\ canonical.notification # NoNotification
       THEN {Outcome(canonical.this, chan, ReadyOk(canonical.notification), "check_canonical")}
       ELSE IF this2.backfill_job # NoJob /\ this2.backfill_job.next <= this2.backfill_job.end
       THEN {Outcome(polled.this, chan, polled.item, "backfill_job") :
                 polled \in BackfillJob_poll_next(this2)}
       ELSE {Received(this3, live)}

\* ExExNotificationsWithHead::poll_next: the outcomes of one call.
ExExNotificationsWithHead_poll_next(this, chan, io_ok) ==
    LET canonical == check_canonical(this, io_ok)
        this1 == IF this.pending_check_canonical
                 THEN [canonical.this EXCEPT !.pending_check_canonical = FALSE]
                 ELSE this
        this2 == IF this1.pending_check_backfill
                 THEN [check_backfill(this1) EXCEPT !.pending_check_backfill = FALSE]
                 ELSE this1
        this3 == [this2 EXCEPT !.backfill_job = NoJob]
        live == advance_event_stream(this3, chan)
    IN IF this.pending_check_canonical /\ ~canonical.ok
       THEN {Outcome(this, chan, ReadyErr, "check_canonical")}
       ELSE IF this.pending_check_canonical /\ canonical.notification # NoNotification
       THEN {Outcome(canonical.this, chan, ReadyOk(canonical.notification), "check_canonical")}
       ELSE IF this2.backfill_job # NoJob /\ this2.backfill_job.next <= this2.backfill_job.end
       THEN {Outcome(polled.this, chan, polled.item, "backfill_job") :
                 polled \in BackfillJob_poll_next(this2)}
       ELSE {Received(this3, live)}

\* ExExNotificationsWithoutHead::poll_next
ExExNotificationsWithoutHead_poll_next(this, chan) ==
    LET received == poll_recv(chan)
    IN {Received(this, received)}

\* ExExNotifications::poll_next
poll_next ==
    \E io_ok \in BOOLEAN :
        \E out \in
            CASE inner.tag = "WithoutHead" ->
                     ExExNotificationsWithoutHead_poll_next(inner, notifications)
              [] inner.tag = "WithHead" ->
                     ExExNotificationsWithHead_poll_next(inner, notifications, io_ok)
              [] OTHER -> {Outcome(inner, notifications, Panicked, "none")} :
            /\ inner' = out.inner
            /\ notifications' = out.notifications
            /\ exex_ret' = [StreamRet("poll_next", NoNotification, out.item, out.source)
                               EXCEPT !.skipped = out.skipped]
            /\ emitted' = IF out.item.some /\ out.item.ok
                          THEN emitted \cup {out.source}
                          ELSE emitted
            /\ StreamFrame

\* ------------------------------------------------------------ specification
\* The manager's calls, the handshake tasks and the end of session tasks.
ManagerAndTasks ==
    \/ on_incoming
    \/ \E p \in Peers : dial_outbound(p)
    \/ poll
    \/ disconnect_all_pending
    \/ \E id \in DOMAIN pending_tasks : connect_ok(id)
    \/ \E id \in DOMAIN pending_tasks : connect_err(id)
    \/ \E id \in DOMAIN pending_tasks : ecies_ok(id)
    \/ \E id \in DOMAIN pending_tasks : ecies_err(id)
    \/ \E id \in DOMAIN pending_tasks : auth_done(id)
    \/ \E id \in DOMAIN pending_tasks : auth_cancelled(id)
    \/ \E id \in DOMAIN pending_tasks : send_ready(id)
    \/ \E id \in DOMAIN pending_tasks : timeout_elapsed(id)
    \/ \E s \in sessions, type \in {"Disconnected", "ClosedOnConnectionError"} :
           session_close(s, type)

Next ==
    \/ ManagerAndTasks
    \/ \E s \in sessions, type \in {"ValidMessage", "BadMessage", "ProtocolBreach"} :
           session_message(s, type)

Spec == Init /\ [][Next]_vars

\* The SessionIds one run can issue.
SessionIds == 0..(MaxSessions - 1)

\* Scheduling the runtime provides: the tokio timer of a pending session fires
\* once its deadline has passed (the future is suspended in a stage or in the
\* send of its result); senders waiting on the bounded channel are served in
\* order, so a suspended send completes once capacity keeps returning; the
\* network manager keeps polling the session manager and takes a ready
\* active-session message, and a ready pending event whenever the
\* active-session stream is not ready.
Fairness ==
    /\ \A id \in SessionIds :
           /\ WF_vars(id \in DOMAIN pending_tasks /\ timeout_elapsed(id))
           /\ SF_vars(id \in DOMAIN pending_tasks /\ send_ready(id))
    /\ WF_vars(poll_active)
    /\ SF_vars(active_session_rx = << >> /\ poll_pending)

\* For liveness the traffic of the active sessions is one kind of forwarded
\* message: poll handles the three kinds alike.
NextFair ==
    \/ ManagerAndTasks
    \/ \E s \in sessions : session_message(s, "ValidMessage")

SpecFair == Init /\ [][NextFair]_vars /\ Fairness

\* The same runtime with a network manager of which only this is known: it
\* keeps calling poll.
FairnessPolled ==
    /\ \A id \in SessionIds :
           /\ WF_vars(id \in DOMAIN pending_tasks /\ timeout_elapsed(id))
           /\ SF_vars(id \in DOMAIN pending_tasks /\ send_ready(id))
    /\ WF_vars(poll)

SpecPolled == Init /\ [][NextFair]_vars /\ FairnessPolled

\* The manager with the callers of its session commands, over inbound
\* sessions whose handshakes run undisturbed: no transport failure, timeout
\* or cancellation.
NextCommands ==
    \/ on_incoming
    \/ poll
    \/ \E id \in DOMAIN pending_tasks : ecies_ok(id)
    \/ \E id \in DOMAIN pending_tasks : auth_done(id)
    \/ \E id \in DOMAIN pending_tasks : send_ready(id)
    \/ \E s \in sessions, type \in {"Disconnected", "ClosedOnConnectionError"} :
           session_close(s, type)
    \/ \E node \in Peers : disconnect(node)
    \/ disconnect_all
    \/ \E peer_id \in Peers : send_message(peer_id)
    \/ \E s \in sessions : session_command(s)

SpecCommands == Init /\ [][NextCommands]_vars

\* The manager with sessions that may send a close message and go on, so
\* that a later close message of theirs names a peer whose handle is gone.
NextCloses ==
    \/ on_incoming
    \/ poll
    \/ \E id \in DOMAIN pending_tasks : ecies_ok(id)
    \/ \E id \in DOMAIN pending_tasks : auth_done(id)
    \/ \E id \in DOMAIN pending_tasks : send_ready(id)
    \/ \E s \in sessions, type \in {"Disconnected", "ClosedOnConnectionError"} :
           session_message(s, type)
    \/ \E s \in sessions, type \in {"Disconnected", "ClosedOnConnectionError"} :
           session_close(s, type)

SpecCloses == Init /\ [][NextCloses]_vars

\* The manager refusing inbound connections: accepts up to the limit, and
\* the graceful disconnects of the connections it does not track.
NextDisconnections ==
    \/ on_incoming
    \/ try_disconnect_incoming_connection
    \/ graceful_ecies_ok
    \/ graceful_ecies_err
    \/ \E ok \in BOOLEAN : graceful_sent(ok)

SpecDisconnections == Init /\ [][NextDisconnections]_vars

\* The manager advertising its block range while sessions are dialed,
\* accepted, established and closed; the handshakes run undisturbed.
NextRange ==
    \/ on_incoming
    \/ \E p \in Peers : dial_outbound(p)
    \/ poll
    \/ \E id \in DOMAIN pending_tasks : connect_ok(id)
    \/ \E id \in DOMAIN pending_tasks : ecies_ok(id)
    \/ \E id \in DOMAIN pending_tasks : auth_done(id)
    \/ \E id \in DOMAIN pending_tasks : send_ready(id)
    \/ \E s \in sessions : session_close(s, "Disconnected")
    \/ \E block_range_update \in BlockRangeUpdates :
           update_advertised_block_range(block_range_update)

SpecRange == Init /\ [][NextRange]_vars

\* One connection's handshake for every set of handlers, direction and
\* answer of the remote.
NextHandshake ==
    \/ \E id \in SessionIds, p \in Peers, hs \in HandlerLists :
           \/ authenticate(id, Incoming, hs)
           \/ authenticate(id, Outgoing(p), hs)
    \/ \E ok \in BOOLEAN : hs_get_ecies_stream(ok)
    \/ \E their_hello \in HelloResultsFor(handshake.extra_handlers) : hs_hello(their_hello)
    \/ hs_extra_handlers
    \/ hs_eth_version
    \/ \E ok \in BOOLEAN : hs_status(ok)

SpecHandshake == Init /\ [][NextHandshake]_vars

\* The ExEx notification stream: its configuration, its polls and the node
\* sending on its channel.
NextNotifications ==
    \/ set_without_head
    \/ without_head
    \/ \E exex_head \in ExExHeads : set_with_head(exex_head) \/ with_head(exex_head)
    \/ poll_next
    \/ \E notification \in LiveNotifications : send(notification)
    \/ close

SpecNotifications == InitNotifications /\ [][NextNotifications]_vars

\* ------------------------------------------------------------- properties
\* Sessions of a direction in the two handle tables.
PendingOf(out) == {id \in DOMAIN pending_sessions : pending_sessions[id].direction.out = out}

ActiveOf(out) == {h \in active_sessions : h.direction.out = out}

PendingCount(c, out) == IF out THEN c.pending_outbound ELSE c.pending_inbound

ActiveCount(c, out) == IF out THEN c.active_outbound ELSE c.active_inbound

Limit(c, out) == IF out THEN c.limits.max_outbound ELSE c.limits.max_inbound

\* The step just taken was a poll that consumed the head of the pending-event
\* channel.
PollTookPending ==
    /\ ret'.op = "poll"
    /\ active_session_rx = << >>
    /\ pending_session_rx # << >>

\* C1: after every call, for each direction, pending plus active sessions of
\* that direction (in the tables and in the counter) is at most the
\* configured limit of that direction.
C1_AdmissionInvariant ==
    \A out \in BOOLEAN :
        /\ Cardinality(PendingOf(out)) + Cardinality(ActiveOf(out)) <= Limit(counter, out)
        /\ PendingCount(counter, out) + ActiveCount(counter, out) <= Limit(counter, out)

\* An accept was refused with one inbound session pending and one active.
C1_Witness ==
    /\ ret.op = "on_incoming"
    /\ ~ret.ok
    /\ Cardinality(PendingOf(FALSE)) >= 1
    /\ Cardinality(ActiveOf(FALSE)) >= 1
    /\ Cardinality(PendingOf(FALSE)) + Cardinality(ActiveOf(FALSE)) = counter.limits.max_inbound

\* C2: an on_incoming call made while inbound capacity is exhausted returns
\* the error and changes nothing: next_id, the tables, the counter, the
\* spawned tasks and the channels are as before.
C2_AcceptRefusedNoSideEffects ==
    [][(ret'.op = "on_incoming" /\ ~ensure_pending_inbound(counter)) =>
          /\ ~ret'.ok
          /\ ret'.id = NoId
          /\ UNCHANGED <<next_id, counter, pending_sessions, active_sessions,
                         pending_session_rx, active_session_rx, pending_tasks, sessions,
                         commands_to_session, total_outgoing_peer_messages_dropped,
                         issued, retired>>]_vars

\* An accept has just been refused while ids were still available.
C2_Witness ==
    /\ ret.op = "on_incoming"
    /\ ~ret.ok
    /\ ~ensure_pending_inbound(counter)
    /\ next_id < MaxSessions

\* C3: while no terminal event has been processed, an accept succeeds exactly
\* while fewer than the inbound limit of accepts have succeeded: a successful one
\* returns the next SessionId, larger than every id issued before, inserts one
\* pending handle, spawns one handshake task and raises pending_inbound by
\* one; the accept after that many successes returns the error and creates no
\* id and no task, with pending_inbound at the limit and active_inbound = 0.
NoTerminalEventProcessed == \A id \in DOMAIN retired : retired[id] = 0

C3_FirstAcceptsUpToLimit ==
    [][(ret'.op = "on_incoming" /\ NoTerminalEventProcessed) =>
          /\ counter.active_inbound = 0
          /\ counter.pending_inbound = Cardinality(PendingOf(FALSE))
          /\ IF counter.pending_inbound < counter.limits.max_inbound
             THEN /\ ret'.ok
                  /\ ret'.id = next_id
                  /\ \A i \in 1..Len(issued) : issued[i] < ret'.id
                  /\ next_id' > next_id
                  /\ DOMAIN pending_sessions' = DOMAIN pending_sessions \cup {ret'.id}
                  /\ ret'.id \notin DOMAIN pending_sessions
                  /\ pending_sessions'[ret'.id].direction = Incoming
                  /\ DOMAIN pending_tasks' = DOMAIN pending_tasks \cup {ret'.id}
                  /\ ret'.id \notin DOMAIN pending_tasks
                  /\ counter'.pending_inbound = counter.pending_inbound + 1
                  /\ counter'.active_inbound = 0
             ELSE /\ ~ret'.ok
                  /\ counter.pending_inbound = counter.limits.max_inbound
                  /\ UNCHANGED <<next_id, pending_tasks, pending_sessions, counter, issued>>]_vars

\* With an inbound limit of two, the third accept has been refused.
C3_Witness ==
    /\ counter.limits.max_inbound >= 2
    /\ ret.op = "on_incoming"
    /\ ~ret.ok
    /\ NoTerminalEventProcessed
    /\ counter.pending_inbound = counter.limits.max_inbound
    /\ counter.active_inbound = 0
    /\ Cardinality(PendingOf(FALSE)) = counter.limits.max_inbound

\* C4: a dial_outbound call made while outbound capacity is exhausted is
\* dropped silently: no SessionId is consumed, no handle inserted, no counter
\* changed, no task spawned and nothing put on either channel.
C4_DialAtCapacityDropped ==
    [][(ret'.op = "dial_outbound" /\ ~ensure_pending_outbound(counter)) =>
          /\ ret'.ok
          /\ UNCHANGED <<next_id, counter, pending_sessions, active_sessions,
                         pending_session_rx, active_session_rx, pending_tasks, sessions,
                         commands_to_session, total_outgoing_peer_messages_dropped,
                         issued, retired>>]_vars

\* A dial has just returned while the only outbound slot was held by an
\* active session and ids were still available: that dial was dropped.
C4_Witness ==
    /\ ret.op = "dial_outbound"
    /\ counter.limits.max_outbound >= 1
    /\ counter.active_outbound = counter.limits.max_outbound
    /\ counter.pending_outbound = 0
    /\ next_id < MaxSessions

\* C5: the SessionIds handed out are strictly increasing in the order of
\* issue, hence unique and never reused, also after a session was removed,
\* and every id in use is below next_id.
C5_SessionIdsIncrease ==
    /\ \A i, j \in 1..Len(issued) : i < j => issued[i] < issued[j]
    /\ \A i \in 1..Len(issued) : issued[i] < next_id
    /\ DOMAIN pending_sessions \subseteq {issued[i] : i \in 1..Len(issued)}
    /\ \A h \in active_sessions : h.session_id < next_id

\* An accept has just been admitted after an earlier session was removed.
C5_Witness ==
    /\ ret.op = "on_incoming"
    /\ ret.ok
    /\ Len(issued) >= 2
    /\ \E i \in 1..Len(issued) : retired[issued[i]] = 1 /\ issued[i] < ret.id

\* C6: for every peer id there is at most one ActiveSessionHandle and at most
\* one running ActiveSession task.
C6_OneActiveSessionPerPeer ==
    \A p \in Peers :
        /\ Cardinality({h \in active_sessions : h.remote_id = p}) <= 1
        /\ Cardinality({x \in sessions : x.peer_id = p}) <= 1

\* A second handshake to a peer whose session task is running was refused.
C6_Witness ==
    /\ ret.op = "poll"
    /\ ret.ev.type = "AlreadyConnected"
    /\ \E x \in sessions : x.peer_id = ret.ev.peer_id
    /\ \E h \in active_sessions : h.remote_id = ret.ev.peer_id

\* C7: a poll that takes an Established event for a peer that already has an
\* active session returns AlreadyConnected for the new attempt, removes the
\* attempt's pending handle, lowers its pending counter by one, and leaves
\* active_sessions, both active counters and the running session tasks as
\* they were.
C7_AlreadyConnectedKeepsExisting ==
    [][(/\ PollTookPending
        /\ Head(pending_session_rx).type = "Established"
        /\ ActiveContainsKey(active_sessions, Head(pending_session_rx).peer_id)) =>
          LET event == Head(pending_session_rx)
              out == pending_sessions[event.session_id].direction.out
          IN /\ ret'.ev = SessionEvent("AlreadyConnected", event.peer_id,
                                       event.direction, "None")
             /\ event.session_id \in DOMAIN pending_sessions
             /\ DOMAIN pending_sessions' = DOMAIN pending_sessions \ {event.session_id}
             /\ PendingCount(counter', out) = PendingCount(counter, out) - 1
             /\ PendingCount(counter', ~out) = PendingCount(counter, ~out)
             /\ active_sessions' = active_sessions
             /\ counter'.active_inbound = counter.active_inbound
             /\ counter'.active_outbound = counter.active_outbound
             /\ sessions' = sessions]_vars

\* AlreadyConnected was returned and the peer's earlier handle is in place.
C7_Witness ==
    /\ ret.op = "poll"
    /\ ret.ev.type = "AlreadyConnected"
    /\ \E h \in active_sessions : h.remote_id = ret.ev.peer_id /\ retired[h.session_id] = 1

\* C8: every spawned handshake task puts at most one event on the
\* pending-event channel, and a task that has run to its end has put exactly
\* one: never none, never a handshake result and a Timeout both.
EventsFor(id) ==
    Cardinality({i \in 1..Len(pending_session_rx) : pending_session_rx[i].session_id = id})

C8_ExactlyOneTerminalEvent ==
    \A id \in DOMAIN pending_tasks :
        /\ pending_tasks[id].sent <= 1
        /\ (pending_tasks[id].pc = "done") <=> (pending_tasks[id].sent = 1)
        /\ EventsFor(id) + retired[id] = pending_tasks[id].sent

\* A task was cancelled by the manager and also ran into its timeout: its one
\* event, the Timeout, is on the channel.
C8_Witness ==
    \E id \in DOMAIN pending_sessions :
        /\ ~pending_sessions[id].disconnect_tx
        /\ pending_tasks[id].pc = "done"
        /\ pending_tasks[id].sent = 1
        /\ \E i \in 1..Len(pending_session_rx) :
               /\ pending_session_rx[i].session_id = id
               /\ pending_session_rx[i].error = "Timeout"

\* C9: whatever terminal event a poll takes from the pending-event channel
\* (Established, Disconnected with any error, EciesAuthError,
\* OutgoingConnectionError), the attempt's handle is there, is removed, and
\* the pending counter of the handle's direction drops by exactly one while
\* the other pending counter stays; no attempt is retired twice.
C9_PendingSlotReleasedOnce ==
    [][PollTookPending =>
          LET event == Head(pending_session_rx) IN
          /\ event.session_id \in DOMAIN pending_sessions
          /\ retired[event.session_id] = 0
          /\ retired'[event.session_id] = 1
          /\ event.session_id \notin DOMAIN pending_sessions'
          /\ LET out == pending_sessions[event.session_id].direction.out IN
             /\ PendingCount(counter', out) = PendingCount(counter, out) - 1
             /\ PendingCount(counter', ~out) = PendingCount(counter, ~out)]_vars

\* An incoming handshake failed in the chain handshake and the pending
\* counter is back at zero, its value before the accept.
C9_Witness ==
    /\ ret.op = "poll"
    /\ ret.ev.type = "IncomingPendingSessionClosed"
    /\ ret.ev.error = "Eth"
    /\ counter.pending_inbound = 0
    /\ Len(issued) = 1

\* C10: a poll made while both channels hold a message returns the event of
\* the active-session message and leaves the pending-event channel as it is;
\* a poll takes a pending event only when the active-session channel is empty.
C10_ActiveBeforePending ==
    [][(ret'.op = "poll") =>
          /\ (active_session_rx # << >> /\ pending_session_rx # << >>) =>
                /\ pending_session_rx' = pending_session_rx
                /\ active_session_rx' = Tail(active_session_rx)
                /\ ret'.ok
                /\ ret'.ev.peer_id = Head(active_session_rx).peer_id
                /\ ret'.ev.type =
                       (IF Head(active_session_rx).type = "ClosedOnConnectionError"
                        THEN "SessionClosedOnConnectionError"
                        ELSE Head(active_session_rx).type)
          /\ (pending_session_rx' # pending_session_rx) => active_session_rx = << >>]_vars

\* A poll returned an active-session event while a pending event was waiting.
C10_Witness ==
    /\ ret.op = "poll"
    /\ ret.ok
    /\ ret.ev.type \in {"Disconnected", "SessionClosedOnConnectionError", "ValidMessage",
                        "BadMessage", "ProtocolBreach"}
    /\ pending_session_rx # << >>

\* Handshake stages a pending session can stall in: the TCP connect, the
\* transport handshake, and the capability and chain handshakes of
\* authenticate_stream.
Stages == {"connect", "ecies", "auth"}

InStage(id) == id \in DOMAIN pending_tasks /\ pending_tasks[id].pc \in Stages

TimeoutEvent(id, direction) ==
    PendingSessionEvent("Disconnected", id, NoPeer, direction, "Timeout")

\* The step puts the Timeout event of task id on the pending-event channel, or
\* leaves the task suspended in the send of it.
TimeoutFired(id) ==
    /\ pending_tasks[id].pc \in Stages
    /\ \/ /\ pending_tasks'[id].pc = "send_timeout"
          /\ pending_tasks'[id].res = TimeoutEvent(id, pending_tasks[id].direction)
       \/ /\ pending_tasks'[id].pc = "done"
          /\ pending_session_rx' =
                 Append(pending_session_rx, TimeoutEvent(id, pending_tasks[id].direction))

HoldsEstablished(id) ==
    /\ pending_tasks[id].pc = "send"
    /\ pending_tasks[id].res.type = "Established"

\* The step delivers the event task id holds to the pending-event channel.
Delivered(id) ==
    /\ pending_tasks'[id].pc = "done"
    /\ pending_session_rx' = Append(pending_session_rx, pending_tasks[id].res)

\* C12 as stated: once all stages of a handshake have completed successfully,
\* its terminal event is the Established result, however long the result
\* waits for the pending-event channel.
C12_Counterexample ==
    [][\A id \in DOMAIN pending_tasks :
          HoldsEstablished(id) =>
             \/ pending_tasks'[id] = pending_tasks[id]
             \/ Delivered(id)]_vars

\* C12 amended: a handshake whose stages all complete successfully and whose
\* result the pending-event channel accepts before the timeout expires
\* succeeds.  If the channel has capacity when the stages complete, the result
\* is on the channel in the same step; an Established event on the channel is
\* the only event of its task, which has finished, and poll surfaces it as
\* SessionEstablished or AlreadyConnected for the same peer.  A result waiting
\* for capacity is either delivered or, if the timeout expires first, dropped
\* and replaced by the Timeout event of that session.
C12_EstablishedUnlessSendTimesOut ==
    /\ [](\A i \in 1..Len(pending_session_rx) :
             pending_session_rx[i].type = "Established" =>
                LET id == pending_session_rx[i].session_id IN
                /\ pending_tasks[id].pc = "done"
                /\ pending_tasks[id].sent = 1
                /\ EventsFor(id) = 1
                /\ retired[id] = 0)
    /\ [][\A id \in DOMAIN pending_tasks :
             /\ (pending_tasks[id].pc = "auth" /\ HasCapacity(pending_session_rx))
                   => pending_tasks'[id].pc \in {"auth", "done"}
             /\ HoldsEstablished(id) =>
                   \/ pending_tasks'[id] = pending_tasks[id]
                   \/ Delivered(id)
                   \/ /\ pending_tasks'[id].pc = "send_timeout"
                      /\ pending_tasks'[id].res =
                             TimeoutEvent(id, pending_tasks[id].direction)
                   \/ /\ pending_tasks'[id].pc = "done"
                      /\ pending_session_rx' =
                             Append(pending_session_rx,
                                    TimeoutEvent(id, pending_tasks[id].direction))]_vars
    /\ [][(PollTookPending /\ Head(pending_session_rx).type = "Established") =>
             /\ ret'.ev.type \in {"SessionEstablished", "AlreadyConnected"}
             /\ ret'.ev.peer_id = Head(pending_session_rx).peer_id
             /\ ret'.ev.error = "None"]_vars

\* poll has surfaced SessionEstablished for one handshake while the
\* Established result of another, which found the channel full, is still
\* suspended in its send.
C12_Witness ==
    /\ ret.op = "poll"
    /\ ret.ev.type = "SessionEstablished"
    /\ \E id \in DOMAIN pending_tasks : HoldsEstablished(id)

\* The step makes event ev the terminal event of task id: it is put on the
\* pending-event channel, or the task is left suspended in the send of it.
Produces(id, ev) ==
    \/ /\ pending_tasks'[id].pc = "done"
       /\ pending_session_rx' = Append(pending_session_rx, ev)
    \/ /\ pending_tasks'[id].pc \in {"send", "send_timeout"}
       /\ pending_tasks'[id].res = ev

CancelledEvent(id, direction) ==
    PendingSessionEvent("Disconnected", id, NoPeer, direction, "None")

C14_CountersMatchTables ==
    \A out \in BOOLEAN :
        /\ PendingCount(counter, out) = Cardinality(PendingOf(out))
        /\ ActiveCount(counter, out) = Cardinality(ActiveOf(out))

\* poll has just removed the only active session while another attempt is
\* pending: both tables and all counters have moved at least once.
C14_Witness ==
    /\ ret.op = "poll"
    /\ ret.ev.type \in {"Disconnected", "SessionClosedOnConnectionError"}
    /\ active_sessions = {}
    /\ Cardinality(DOMAIN pending_sessions) = 1
    /\ \E id \in DOMAIN retired : retired[id] = 1

\* The step just taken was a poll that consumed the head of the
\* active-session channel.
PollTookActive ==
    /\ ret'.op = "poll"
    /\ active_session_rx # << >>

\* C15: a poll that takes a Disconnected or ClosedOnConnectionError message of
\* a peer with an active handle removes exactly that handle, lowers the
\* active counter of the handle's direction by one and no other counter, and
\* returns Disconnected, respectively SessionClosedOnConnectionError, for the
\* peer; the peer is then absent from active_sessions, and a poll that takes
\* an Established event of a peer absent from active_sessions promotes it.
C15_ActiveCloseRemovesHandle ==
    /\ [][(/\ PollTookActive
           /\ Head(active_session_rx).type \in {"Disconnected", "ClosedOnConnectionError"}
           /\ ActiveContainsKey(active_sessions, Head(active_session_rx).peer_id)) =>
             LET event == Head(active_session_rx)
                 handle == ActiveGet(active_sessions, event.peer_id)
                 out == handle.direction.out
             IN /\ active_sessions' = active_sessions \ {handle}
                /\ ~ActiveContainsKey(active_sessions', event.peer_id)
                /\ ActiveCount(counter', out) = ActiveCount(counter, out) - 1
                /\ ActiveCount(counter', ~out) = ActiveCount(counter, ~out)
                /\ counter'.pending_inbound = counter.pending_inbound
                /\ counter'.pending_outbound = counter.pending_outbound
                /\ ret'.ok
                /\ ret'.ev.peer_id = event.peer_id
                /\ ret'.ev.type = (IF event.type = "Disconnected" THEN "Disconnected"
                                   ELSE "SessionClosedOnConnectionError")
                /\ UNCHANGED <<pending_sessions, next_id>>]_vars
    /\ [][(/\ PollTookPending
           /\ Head(pending_session_rx).type = "Established"
           /\ ~ActiveContainsKey(active_sessions, Head(pending_session_rx).peer_id)) =>
             /\ ret'.ev.type = "SessionEstablished"
             /\ ActiveContainsKey(active_sessions', Head(pending_session_rx).peer_id)]_vars

\* poll has returned the close of a peer's session, the peer has no handle
\* any more, and the Established event of a later handshake with the same
\* peer is next on the pending-event channel.
C15_Witness ==
    /\ ret.op = "poll"
    /\ ret.ev.type \in {"Disconnected", "SessionClosedOnConnectionError"}
    /\ ~ActiveContainsKey(active_sessions, ret.ev.peer_id)
    /\ pending_session_rx # << >>
    /\ Head(pending_session_rx).type = "Established"
    /\ Head(pending_session_rx).peer_id = ret.ev.peer_id

\* C16: a poll that takes a ValidMessage, BadMessage or ProtocolBreach message
\* returns the event of the same name for the same peer and changes neither
\* table, none of the four counters, nor next_id; the session of a
\* ProtocolBreach keeps its handle.
C16_ForwardedMessagesTouchNothing ==
    [][(/\ PollTookActive
        /\ Head(active_session_rx).type \in {"ValidMessage", "BadMessage", "ProtocolBreach"}) =>
          LET event == Head(active_session_rx) IN
          /\ ret'.ok
          /\ ret'.ev = SessionEvent(event.type, event.peer_id, Incoming, "None")
          /\ UNCHANGED <<pending_sessions, active_sessions, counter, next_id, sessions,
                         commands_to_session, pending_session_rx, pending_tasks>>]_vars

\* poll has returned ProtocolBreach for a peer whose handle is still in
\* active_sessions.
C16_Witness ==
    /\ ret.op = "poll"
    /\ ret.ev.type = "ProtocolBreach"
    /\ ActiveContainsKey(active_sessions, ret.ev.peer_id)

\* C17: a poll that takes an Established event of a peer without an active
\* session does all of this in that one step: removes the attempt's pending
\* handle, lowers the pending counter of its direction by one, spawns one
\* ActiveSession task, creates the session's command channel, inserts one
\* ActiveSessionHandle under the peer id with the event's session id and
\* direction, raises the active counter of that direction by one, and returns
\* SessionEstablished for the peer and direction.
C17_PromotionInOnePoll ==
    [][(/\ PollTookPending
        /\ Head(pending_session_rx).type = "Established"
        /\ ~ActiveContainsKey(active_sessions, Head(pending_session_rx).peer_id)) =>
          LET event == Head(pending_session_rx)
              out == event.direction.out
              handle == ActiveSessionHandle(event.session_id, event.peer_id, event.direction)
              session == ActiveSession(event.session_id, event.peer_id, local_range_info)
          IN /\ event.session_id \in DOMAIN pending_sessions
             /\ pending_sessions[event.session_id].direction = event.direction
             /\ DOMAIN pending_sessions' = DOMAIN pending_sessions \ {event.session_id}
             /\ PendingCount(counter', out) = PendingCount(counter, out) - 1
             /\ PendingCount(counter', ~out) = PendingCount(counter, ~out)
             /\ session \notin sessions
             /\ sessions' = sessions \cup {session}
             /\ handle \notin active_sessions
             /\ active_sessions' = active_sessions \cup {handle}
             /\ DOMAIN commands_to_session' = DOMAIN commands_to_session \cup {event.peer_id}
             /\ commands_to_session'[event.peer_id] = << >>
             /\ ActiveCount(counter', out) = ActiveCount(counter, out) + 1
             /\ ActiveCount(counter', ~out) = ActiveCount(counter, ~out)
             /\ ret'.ok
             /\ ret'.ev = SessionEvent("SessionEstablished", event.peer_id,
                                       event.direction, "None")]_vars

\* poll has returned SessionEstablished for an outbound attempt: the peer's
\* handle and task are there and the slot moved from pending to active.
C17_Witness ==
    /\ ret.op = "poll"
    /\ ret.ev.type = "SessionEstablished"
    /\ ret.ev.direction.out
    /\ counter.active_outbound = 1
    /\ counter.pending_outbound = 0
    /\ \E s \in sessions : s.peer_id = ret.ev.peer_id
    /\ ActiveContainsKey(active_sessions, ret.ev.peer_id)

\* C18: a poll that takes a pending event other than Established removes the
\* attempt's pending handle, lowers the pending counter of its direction by
\* one and returns: for Disconnected, IncomingPendingSessionClosed or
\* OutgoingPendingSessionClosed (with the dialled peer id) by the event's
\* direction, with the event's error or none; for EciesAuthError the same two
\* events with the Ecies error; for OutgoingConnectionError,
\* OutgoingConnectionError with the event's peer id and error.  No active
\* handle, active counter or session task changes.
C18_PendingFailureMapping ==
    [][(PollTookPending /\ Head(pending_session_rx).type # "Established") =>
          LET event == Head(pending_session_rx)
              out == event.direction.out
              closed(error) ==
                  IF out
                  THEN SessionEvent("OutgoingPendingSessionClosed", event.direction.peer,
                                    Incoming, error)
                  ELSE SessionEvent("IncomingPendingSessionClosed", NoPeer, Incoming, error)
          IN /\ event.type \in {"Disconnected", "EciesAuthError", "OutgoingConnectionError"}
             /\ event.session_id \in DOMAIN pending_sessions
             /\ pending_sessions[event.session_id].direction = event.direction
             /\ DOMAIN pending_sessions' = DOMAIN pending_sessions \ {event.session_id}
             /\ PendingCount(counter', out) = PendingCount(counter, out) - 1
             /\ PendingCount(counter', ~out) = PendingCount(counter, ~out)
             /\ ret'.ok
             /\ event.type = "Disconnected" => ret'.ev = closed(event.error)
             /\ event.type = "EciesAuthError" => ret'.ev = closed("Ecies")
             /\ event.type = "OutgoingConnectionError" =>
                   /\ out
                   /\ event.peer_id = event.direction.peer
                   /\ ret'.ev = SessionEvent("OutgoingConnectionError", event.peer_id,
                                             Incoming, event.error)
             /\ counter'.active_inbound = counter.active_inbound
             /\ counter'.active_outbound = counter.active_outbound
             /\ UNCHANGED <<active_sessions, sessions, commands_to_session>>]_vars

\* poll has returned the closure of an outbound attempt whose handshake
\* failed with an error of the capability or chain handshake.
C18_Witness ==
    /\ ret.op = "poll"
    /\ ret.ev.type = "OutgoingPendingSessionClosed"
    /\ ret.ev.error \in {"Eth", "UnsupportedExtraCapability"}
    /\ ret.ev.peer_id \in Peers

\* C19: disconnect and disconnect_all can always be called and only put a
\* Disconnect command on the command channel of the sessions they target, as
\* far as the channel has room: disconnect(node) changes nothing at all when
\* node has no active session and otherwise no channel but node's; neither
\* changes pending_sessions, active_sessions, the counters, next_id, the
\* running tasks or the manager's two event channels.
C19_DisconnectOnlyNotifies ==
    /\ [](ENABLED disconnect_all /\ \A node \in Peers : ENABLED disconnect(node))
    /\ [][(ret'.op \in {"disconnect", "disconnect_all"}) =>
             LET node == ret'.ev.peer_id
                 notified(p) ==
                     IF Len(commands_to_session[p]) < session_command_buffer
                     THEN Append(commands_to_session[p], "Disconnect")
                     ELSE commands_to_session[p]
             IN /\ UNCHANGED <<pending_sessions, active_sessions, counter, next_id,
                               sessions, pending_tasks, pending_session_rx,
                               active_session_rx, total_outgoing_peer_messages_dropped>>
                /\ DOMAIN commands_to_session' = DOMAIN commands_to_session
                /\ ret'.op = "disconnect" =>
                      /\ ~ActiveContainsKey(active_sessions, node) =>
                            commands_to_session' = commands_to_session
                      /\ \A p \in DOMAIN commands_to_session :
                            commands_to_session'[p] =
                                (IF p = node THEN notified(p) ELSE commands_to_session[p])
                /\ ret'.op = "disconnect_all" =>
                      \A p \in DOMAIN commands_to_session :
                          commands_to_session'[p] = notified(p)]_vars

\* disconnect was called for a peer that has no active session while another
\* peer has one: nothing happened, the other session's channel is empty.
C19_Witness ==
    /\ ret.op = "disconnect"
    /\ ~ActiveContainsKey(active_sessions, ret.ev.peer_id)
    /\ \E h \in active_sessions : commands_to_session[h.remote_id] = << >>

InFlight == graceful_disconnects.get_ecies_stream + graceful_disconnects.send_disconnect

\* C21: at any time at most 15 graceful-disconnect tasks spawned by
\* try_disconnect_incoming_connection are in flight.
C21_AtMostFifteenGracefulDisconnects == InFlight <= 15

\* With 15 tasks in flight, in both of their positions, a call has just
\* returned without spawning.
C21_Witness ==
    /\ InFlight = 15
    /\ graceful_disconnects.get_ecies_stream > 0
    /\ graceful_disconnects.send_disconnect > 0
    /\ ret.op = "try_disconnect_incoming_connection"
    /\ ~ret.ok

\* C22: the permits outstanding are exactly those of the tasks in flight, and
\* every end of a task gives its permit back: after a failed transport
\* handshake, and after the disconnect message was sent or failed to be
\* sent, the count is one lower and is the count from before the task was
\* spawned when no other task started or ended meanwhile.
C22_PermitReleasedOnEveryPath ==
    /\ [](disconnections_counter = 1 + InFlight)
    /\ [][(\/ ret'.op = "send_disconnect"
           \/ (ret'.op = "get_ecies_stream" /\ ~ret'.ok)) =>
              /\ InFlight' = InFlight - 1
              /\ disconnections_counter' = disconnections_counter - 1]_vars
    /\ [][(ret'.op = "get_ecies_stream" /\ ret'.ok) =>
              /\ InFlight' = InFlight
              /\ disconnections_counter' = disconnections_counter]_vars

\* The only task in flight has just failed its transport handshake and the
\* limiter is back at its initial count.
C22_Witness ==
    /\ ret.op = "get_ecies_stream"
    /\ ~ret.ok
    /\ InFlight = 0
    /\ disconnections_counter = 1

\* C23: try_disconnect_incoming_connection spawns one task if fewer than 15
\* are in flight and none otherwise, and in both cases leaves the session
\* tables, the admission counter and next_id as they were.
C23_GracefulDisconnectOnlyWithCapacity ==
    [][ret'.op = "try_disconnect_incoming_connection" =>
          /\ IF InFlight < 15
             THEN /\ ret'.ok
                  /\ InFlight' = InFlight + 1
                  /\ graceful_disconnects'.get_ecies_stream =
                         graceful_disconnects.get_ecies_stream + 1
             ELSE /\ ~ret'.ok
                  /\ UNCHANGED <<graceful_disconnects, disconnections_counter>>
          /\ UNCHANGED <<pending_sessions, active_sessions, counter, next_id,
                         pending_tasks, sessions>>]_vars

\* A call at capacity has just dropped the connection of a refused accept
\* while a pending session was tracked.
C23_Witness ==
    /\ ret.op = "try_disconnect_incoming_connection"
    /\ ~ret.ok
    /\ InFlight = 15
    /\ DOMAIN pending_sessions # {}
    /\ ~ensure_pending_inbound(counter)
\* The handshake tasks and sessions a step has spawned.
SpawnedTasks == DOMAIN pending_tasks' \ DOMAIN pending_tasks

SpawnedSessions == sessions' \ sessions

StepMade(call) == \E i \in 1..Len(handshake.steps) : handshake.steps[i].call = call

StepOk(call) ==
    \E i \in 1..Len(handshake.steps) :
        handshake.steps[i].call = call /\ handshake.steps[i].ok

\* The capability handshake of the connection has succeeded.
HelloDone == handshake.their_hello.ok

\* Registered handlers whose capability the remote does not share.
UnsupportedHandlers ==
    {i \in 1..Len(handshake.registered) :
        handshake.registered[i].cap \notin handshake.their_hello.shared}

SupportedCaps == HandlerCaps(handshake.registered) \cap handshake.their_hello.shared

HandshakeError(error) ==
    PendingSessionEvent("Disconnected", handshake.session_id, NoPeer, handshake.direction,
                        error)

\* C25: once the capability handshake has succeeded with some registered
\* handler unsupported by the remote whose policy is Disconnect, the
\* handshake can only end, and ends, with Disconnected carrying
\* UnsupportedExtraCapability: the status handshake is never started, no
\* connection is built and Established is never the event.
C25_MandatoryCapabilityMissing ==
    (/\ HelloDone
     /\ \E i \in UnsupportedHandlers : handshake.registered[i].on_unsupported = "Disconnect") =>
        /\ handshake.pc \in {"extra_handlers", "done"}
        /\ ~StepMade("eth_version")
        /\ ~StepMade("status")
        /\ handshake.conn = "None"
        /\ handshake.event.type # "Established"
        /\ handshake.pc = "done" =>
               handshake.event = HandshakeError("UnsupportedExtraCapability")

\* The remote shares eth and neither of two handlers: the first is optional,
\* the second mandatory, and the handshake has ended on the second.
C25_Witness ==
    /\ handshake.pc = "done"
    /\ HelloDone
    /\ handshake.their_hello.shared = {"eth"}
    /\ Len(handshake.registered) = 2
    /\ handshake.registered[1].on_unsupported = "NoAction"
    /\ handshake.registered[2].on_unsupported = "Disconnect"
    /\ handshake.event.error = "UnsupportedExtraCapability"

\* Every registered handler the remote does not support is optional.
UnsupportedAreOptional ==
    \A i \in UnsupportedHandlers : handshake.registered[i].on_unsupported = "NoAction"

\* C26 as stated: with every unsupported handler optional the handshake goes
\* on to the status handshake, whatever else the remote shares.
C26_Counterexample ==
    (HelloDone /\ UnsupportedAreOptional /\ handshake.pc = "done") => StepMade("status")

\* C26: with every unsupported handler optional, the check of the handlers
\* removes exactly the unsupported ones and keeps the supported ones in
\* order and never fails the handshake; if eth is among the shared
\* capabilities the handshake goes on to the status handshake, and if that
\* succeeds the event is Established and nothing is installed for an
\* unsupported capability; if eth is not shared the handshake ends with an
\* Eth error before the status handshake.
C26_OptionalHandlersDropped ==
    (HelloDone /\ UnsupportedAreOptional) =>
        /\ handshake.event.error # "UnsupportedExtraCapability"
        /\ StepMade("extra_handlers") =>
               /\ StepOk("extra_handlers")
               /\ handshake.extra_handlers =
                      SelectSeq(handshake.registered,
                                LAMBDA h : h.cap \in handshake.their_hello.shared)
        /\ handshake.installed \subseteq SupportedCaps
        /\ handshake.pc = "done" =>
               IF "eth" \in handshake.their_hello.shared
               THEN /\ StepMade("status")
                    /\ StepOk("status") =>
                           /\ handshake.event.type = "Established"
                           /\ handshake.conn = "Multiplexed" =>
                                  handshake.installed = SupportedCaps
               ELSE /\ ~StepMade("status")
                    /\ handshake.event = HandshakeError("Eth")

\* The remote shares eth and the second of two optional handlers; the first
\* was dropped, the second installed, and the session is Established.
C26_Witness ==
    /\ handshake.pc = "done"
    /\ handshake.event.type = "Established"
    /\ Len(handshake.registered) = 2
    /\ UnsupportedHandlers = {1}
    /\ UnsupportedAreOptional
    /\ Len(handshake.extra_handlers) = 1
    /\ handshake.installed = {handshake.registered[2].cap}

\* The calls that are the four stages, in their order, and the event a
\* failure of each ends the handshake with.
StageCalls == <<"get_ecies_stream", "handshake", "extra_handlers", "status">>

StageError(call) ==
    IF call = "get_ecies_stream"
    THEN PendingSessionEvent("EciesAuthError", handshake.session_id, NoPeer,
                             handshake.direction, "ECIESError")
    ELSE IF call = "extra_handlers" THEN HandshakeError("UnsupportedExtraCapability")
    ELSE HandshakeError("Eth")

\* The stages among the calls made so far.
StagesRun == SelectSeq(handshake.steps, LAMBDA s : \E k \in 1..4 : StageCalls[k] = s.call)

\* C27: the stages of one connection run in the order transport handshake,
\* capability handshake, mandatory capability check, chain handshake, each
\* at most once and only after every call before it succeeded; a stage that
\* fails is the last call made and the handshake ends with that stage's
\* error; the event is Established only after all four stages succeeded.
C27_StagesInOrder ==
    /\ Len(StagesRun) <= 4
    /\ \A k \in 1..Len(StagesRun) : StagesRun[k].call = StageCalls[k]
    /\ \A i \in 1..Len(handshake.steps) :
           /\ i < Len(handshake.steps) => handshake.steps[i].ok
           /\ ~handshake.steps[i].ok =>
                  /\ handshake.pc = "done"
                  /\ \A k \in 1..4 :
                         handshake.steps[i].call = StageCalls[k] =>
                             handshake.event = StageError(StageCalls[k])
    /\ handshake.event.type = "Established" =>
           /\ handshake.pc = "done"
           /\ \A k \in 1..4 : StepOk(StageCalls[k])

\* An outgoing connection has gone through the four stages and is
\* Established.
C27_Witness ==
    /\ handshake.pc = "done"
    /\ handshake.direction.out
    /\ handshake.event.type = "Established"
    /\ Len(StagesRun) = 4
    /\ \A k \in 1..4 : StagesRun[k].ok

\* C28: the connection built for the status exchange is the direct stream
\* exactly if one capability is shared; with more than one it is the
\* multiplexer, on which every handler that survived the check is installed
\* before the status handshake is started, and which carries the status
\* exchange.
C28_DirectOrMultiplexed ==
    StepOk("eth_version") =>
        /\ handshake.conn \in {"Direct", "Multiplexed"}
        /\ handshake.conn = "Direct" <=> Cardinality(handshake.their_hello.shared) = 1
        /\ handshake.conn = "Direct" => handshake.installed = {}
        /\ Cardinality(handshake.their_hello.shared) > 1 =>
               /\ handshake.conn = "Multiplexed"
               /\ handshake.installed = HandlerCaps(handshake.extra_handlers)
               /\ handshake.installed = SupportedCaps
               /\ handshake.installed # {}

\* A multiplexed connection with two handlers installed is about to start
\* the status exchange.
C28_Witness ==
    /\ handshake.pc = "status"
    /\ handshake.conn = "Multiplexed"
    /\ Cardinality(handshake.installed) = 2
    /\ Cardinality(handshake.their_hello.shared) = 3
\* C29: a poll that takes the failure of a pending session leaves every
\* other pending handle, every active handle, every task and session and all
\* counters but the pending counter of the attempt's direction as they were;
\* a poll that takes the closing message of an active session leaves every
\* pending handle, every other active handle, every task and every other
\* counter than the active one of the session's direction as they were.
C29_FailureIsolation ==
    /\ [][(PollTookPending /\ Head(pending_session_rx).type # "Established") =>
             LET event == Head(pending_session_rx)
                 out == event.direction.out
             IN /\ DOMAIN pending_sessions' \subseteq DOMAIN pending_sessions
                /\ \A other \in DOMAIN pending_sessions \ {event.session_id} :
                       /\ other \in DOMAIN pending_sessions'
                       /\ pending_sessions'[other] = pending_sessions[other]
                /\ PendingCount(counter', ~out) = PendingCount(counter, ~out)
                /\ PendingCount(counter', out) >= PendingCount(counter, out) - 1
                /\ counter'.active_inbound = counter.active_inbound
                /\ counter'.active_outbound = counter.active_outbound
                /\ counter'.limits = counter.limits
                /\ UNCHANGED <<active_sessions, sessions, pending_tasks,
                               commands_to_session, next_id>>]_vars
    /\ [][(/\ PollTookActive
           /\ Head(active_session_rx).type \in {"Disconnected", "ClosedOnConnectionError"}) =>
             LET event == Head(active_session_rx)
                 closed == {h \in active_sessions : h.remote_id = event.peer_id}
             IN /\ active_sessions' = active_sessions \ closed
                /\ \A p \in DOMAIN commands_to_session \ {event.peer_id} :
                       /\ p \in DOMAIN commands_to_session'
                       /\ commands_to_session'[p] = commands_to_session[p]
                /\ \A out \in BOOLEAN :
                       (\A h \in closed : h.direction.out # out) =>
                           ActiveCount(counter', out) = ActiveCount(counter, out)
                /\ \A h \in closed :
                       ActiveCount(counter', h.direction.out) =
                           ActiveCount(counter, h.direction.out) - 1
                /\ counter'.pending_inbound = counter.pending_inbound
                /\ counter'.pending_outbound = counter.pending_outbound
                /\ counter'.limits = counter.limits
                /\ UNCHANGED <<pending_sessions, pending_tasks, sessions, next_id>>]_vars

\* poll has just returned the failed transport handshake of one attempt while
\* the other connection is an active session whose task is running.
C29_Witness ==
    /\ ret.op = "poll"
    /\ ret.ev.type \in {"IncomingPendingSessionClosed", "OutgoingPendingSessionClosed"}
    /\ ret.ev.error = "Ecies"
    /\ \E h \in active_sessions : \E s \in sessions : s.session_id = h.session_id
    /\ counter.active_inbound + counter.active_outbound = 1

\* The terminal events of a connection attempt.
TerminalEvents ==
    {"SessionEstablished", "AlreadyConnected", "IncomingPendingSessionClosed",
     "OutgoingPendingSessionClosed", "OutgoingConnectionError"}

\* The attempt is tracked; poll has returned its one terminal event and its
\* pending handle is gone.
Tracked(id) == id \in DOMAIN pending_sessions

Retired(id) ==
    /\ id \in DOMAIN retired
    /\ retired[id] = 1
    /\ id \notin DOMAIN pending_sessions

\* poll returns at most one event per attempt, a terminal one.
OneTypedEvent ==
    /\ [](\A id \in DOMAIN retired : retired[id] <= 1)
    /\ [][PollTookPending =>
             /\ ret'.ok
             /\ ret'.ev.type \in TerminalEvents
             /\ retired'[Head(pending_session_rx).session_id] = 1]_vars

\* C30 as stated: with the timers firing, waiting senders served and the
\* manager polled again and again, every tracked attempt has its terminal
\* event returned by poll and its handle removed.
C30_Counterexample ==
    /\ OneTypedEvent
    /\ \A id \in SessionIds : Tracked(id) ~> Retired(id)

\* C30: poll returns at most one event per attempt, a terminal one; and if
\* again and again a poll finds the active-session stream not ready, every
\* tracked attempt has its terminal event returned by poll and its handle
\* removed.
C30_NoSilentDrop ==
    /\ OneTypedEvent
    /\ []<><<active_session_rx = << >> /\ poll>>_vars =>
           \A id \in SessionIds : Tracked(id) ~> Retired(id)

\* Both attempts of a run are retired, the second as a failed dial.
C30_Witness ==
    /\ ret.op = "poll"
    /\ ret.ev.type = "OutgoingConnectionError"
    /\ Len(issued) = 2
    /\ \A i \in 1..Len(issued) : Retired(issued[i])

\* ------------------------------------------------ ExEx notification stream
\* C31 as stated: set_with_head called on a stream that is configured with a
\* head is a no-op: the head, the two pending checks and the backfill job are
\* after the call what they were before it.
C31_SetWithHeadIsNoop ==
    [][(exex_ret'.op = "set_with_head" /\ inner.tag = "WithHead") =>
           /\ inner'.initial_exex_head = inner.initial_exex_head
           /\ inner'.pending_check_canonical = inner.pending_check_canonical
           /\ inner'.pending_check_backfill = inner.pending_check_backfill
           /\ inner'.backfill_job = inner.backfill_job]_vars

\* The poll_next just made yielded a notification.
Yielded == exex_ret.op = "poll_next" /\ exex_ret.item.some /\ exex_ret.item.ok

\* The ExEx head is on the canonical chain as check_canonical reads it.
HeadIsCanonical(this) ==
    /\ is_known(this.initial_exex_head.block.hash)
    /\ this.initial_exex_head.block.number <= this.initial_local_head.number

\* C32: a stream with a head yields in a fixed order. A revert comes from the
\* canonical check only while nothing else was yielded, for a head that is
\* not canonical, and is the inverted WAL notification of that head; a
\* backfilled chain comes only once the canonical check is over and before
\* any notification of the channel, and the chains follow each other from
\* head + 1 and stay at or below the node head; the channel is read, and a
\* notification of it yielded, only once both checks are over and no
\* backfill job is left. By then every head the WAL holds a notification for
\* was reverted (the head left is canonical, or ahead of the node head and
\* unknown to the WAL), and a head behind the node head was backfilled up to
\* the node head.
C32_RevertBackfillLive ==
    [][(inner.tag = "WithHead" /\ exex_ret'.op = "poll_next") =>
           /\ Len(notifications'.queue) < Len(notifications.queue) =>
                  /\ ~inner'.pending_check_canonical
                  /\ ~inner'.pending_check_backfill
                  /\ inner'.backfill_job = NoJob
           /\ (Yielded' /\ exex_ret'.source = "notifications") =>
                  /\ Len(notifications'.queue) < Len(notifications.queue)
                  /\ emitted' = emitted \cup {"notifications"}
                  /\ inner'.initial_exex_head.block.number <
                         inner'.initial_local_head.number =>
                         /\ "backfill_job" \in emitted
                         /\ inner.backfill_job # NoJob =>
                                inner.backfill_job.next =
                                    inner'.initial_local_head.number + 1
           /\ (Yielded' /\ exex_ret'.source # "check_canonical") =>
                  \/ HeadIsCanonical(inner')
                  \/ /\ inner'.initial_exex_head.block.number >
                            inner'.initial_local_head.number
                     /\ get_committed_notification_by_block_hash(
                            inner'.initial_exex_head.block.hash) = NoNotification
           /\ (Yielded' /\ exex_ret'.source = "check_canonical") =>
                  /\ emitted \subseteq {"check_canonical"}
                  /\ ~HeadIsCanonical(inner)
                  /\ exex_ret'.item.notification =
                         into_inverted(get_committed_notification_by_block_hash(
                                           inner.initial_exex_head.block.hash))
                  /\ exex_ret'.item.notification.type = "ChainReverted"
                  /\ notifications' = notifications
           /\ (Yielded' /\ exex_ret'.source = "backfill_job") =>
                  LET chain == exex_ret'.item.notification.new
                      head == inner'.initial_exex_head.block
                  IN /\ "notifications" \notin emitted
                     /\ ~inner'.pending_check_canonical
                     /\ exex_ret'.item.notification.type = "ChainCommitted"
                     /\ chain.first = IF inner.backfill_job = NoJob
                                      THEN head.number + 1
                                      ELSE inner.backfill_job.next
                     /\ head.number < chain.first
                     /\ chain.first <= chain.tip
                     /\ chain.tip <= inner'.initial_local_head.number
                     /\ inner'.backfill_job.next = chain.tip + 1
                     /\ notifications' = notifications]_vars

\* The stream yielded a revert, then a backfilled chain, then a notification
\* of the channel.
C32_Witness ==
    /\ inner.tag = "WithHead"
    /\ Yielded
    /\ exex_ret.source = "notifications"
    /\ emitted = {"check_canonical", "backfill_job", "notifications"}

\* A committed chain the stream's head has reached already.
AtOrBelowHead(this, notification) ==
    /\ committed_chain(notification) # NoChain
    /\ committed_chain(notification).tip <= this.initial_exex_head.block.number

\* C33: a stream with a head yields from the channel no committed chain whose
\* tip is at or below the head number. A poll_next that reads the channel
\* takes its notifications in order: the ones it passes over are committed
\* chains with a tip at or below the head, the one it yields is not; when it
\* yields none every notification of the queue was passed over, and it
\* returns the end of the stream only if the sender is gone and not ready
\* only if the sender is there.
C33_StartsAfterHead ==
    [][(inner.tag = "WithHead" /\ exex_ret'.op = "poll_next"
            /\ exex_ret'.source = "notifications") =>
           LET queue == notifications.queue
               read == Len(queue) - Len(notifications'.queue)
               item == exex_ret'.item
           IN /\ notifications'.queue = SubSeq(queue, read + 1, Len(queue))
              /\ inner'.initial_exex_head = inner.initial_exex_head
              /\ Yielded' =>
                     /\ read >= 1
                     /\ item.notification = queue[read]
                     /\ ~AtOrBelowHead(inner, item.notification)
                     /\ committed_chain(item.notification) # NoChain =>
                            committed_chain(item.notification).tip >
                                inner.initial_exex_head.block.number
                     /\ \A i \in 1..(read - 1) : AtOrBelowHead(inner, queue[i])
                     /\ exex_ret'.skipped = read - 1
              /\ ~Yielded' =>
                     /\ read = Len(queue)
                     /\ \A i \in 1..read : AtOrBelowHead(inner, queue[i])
                     /\ exex_ret'.skipped = read
                     /\ item = IF notifications.closed THEN ReadyNone ELSE PollPending]_vars

\* A poll_next passed over a committed chain at or below the head and yielded
\* the committed chain above the head that followed it.
C33_Witness ==
    /\ inner.tag = "WithHead"
    /\ Yielded
    /\ exex_ret.source = "notifications"
    /\ exex_ret.skipped >= 1
    /\ exex_ret.item.notification.type = "ChainCommitted"
    /\ exex_ret.item.notification.new.tip > inner.initial_exex_head.block.number

\* C34: whatever calls of set_with_head, set_without_head, with_head,
\* without_head and poll_next were made, the stream's inner state is WithHead
\* or WithoutHead, never Invalid, and no call reached unreachable!().
C34_NeverInvalid ==
    /\ inner.tag \in {"WithHead", "WithoutHead"}
    /\ inner # Invalid
    /\ exex_ret.item # Panicked

\* set_without_head was called on a stream with a head and left a stream
\* without one.
C34_Witness ==
    /\ exex_ret.op = "set_without_head"
    /\ exex_ret.source = "WithHead"
    /\ inner.tag = "WithoutHead"

\* ------------------------------------------------ poll, one message a call
\* C35: one poll takes at most one message, and from one channel only: either
\* the head of the active-session channel, or the head of the pending-event
\* channel, or nothing. It returns an event exactly when it took a message;
\* it returns Poll::Pending exactly when both channels are empty, and then
\* neither table, no counter, no task and no id is changed.
C35_OneMessagePerPoll ==
    [][(ret'.op = "poll") =>
          /\ \/ /\ active_session_rx # << >>
                /\ active_session_rx' = Tail(active_session_rx)
                /\ pending_session_rx' = pending_session_rx
                /\ ret'.ok
             \/ /\ pending_session_rx # << >>
                /\ pending_session_rx' = Tail(pending_session_rx)
                /\ active_session_rx' = active_session_rx
                /\ ret'.ok
             \/ /\ active_session_rx' = active_session_rx
                /\ pending_session_rx' = pending_session_rx
                /\ ~ret'.ok
          /\ ret'.ok => ret'.ev # NoEvent
          /\ ~ret'.ok <=> (active_session_rx = << >> /\ pending_session_rx = << >>)
          /\ ~ret'.ok =>
                /\ ret'.ev = NoEvent
                /\ UNCHANGED <<pending_sessions, active_sessions, counter, next_id, sessions,
                               commands_to_session, pending_tasks, retired,
                               total_outgoing_peer_messages_dropped>>]_vars

\* poll returned Poll::Pending while a pending session and an active session
\* were in the tables.
C35_Witness ==
    /\ ret.op = "poll"
    /\ ~ret.ok
    /\ active_session_rx = << >>
    /\ pending_session_rx = << >>
    /\ DOMAIN pending_sessions # {}
    /\ active_sessions # {}

\* ------------------------------------------------ OutgoingConnectionError
\* The event start_pending_outbound_session sends when the connect of the
\* dial of session id fails.
ConnectionError(id, direction) ==
    PendingSessionEvent("OutgoingConnectionError", id, direction.peer, direction, "Io")

\* Task id is suspended in the send of the OutgoingConnectionError of its
\* failed connect.
HoldsConnectionError(id) ==
    /\ pending_tasks[id].pc = "send"
    /\ pending_tasks[id].res.type = "OutgoingConnectionError"

\* C36 as stated: the terminal event of a dial whose connect failed is
\* OutgoingConnectionError, so the event of the failed connect, once the task
\* has it, is the one that reaches the pending-event channel.
C36_Counterexample ==
    [][\A id \in DOMAIN pending_tasks :
          HoldsConnectionError(id) =>
             \/ pending_tasks'[id] = pending_tasks[id]
             \/ Delivered(id)]_vars

\* C36 amended: a dial leaves its connect by going on to the transport
\* handshake, by its timeout, or by producing OutgoingConnectionError with
\* the dialed peer id, after which it never enters the transport handshake:
\* the event is put on the pending-event channel, or, if the channel is full,
\* it waits and is either delivered or replaced by the Timeout event when the
\* timeout expires first. OutgoingConnectionError is produced only by a task
\* in its connect, which only a dial has: every such event carries an
\* outgoing direction and that direction's peer, and poll returns
\* OutgoingConnectionError only for such an event, with the same peer id.
C36_ConnectionErrorOnlyFromConnect ==
    /\ [](/\ \A i \in 1..Len(pending_session_rx) :
                pending_session_rx[i].type = "OutgoingConnectionError" =>
                   LET ev == pending_session_rx[i] IN
                   /\ ev = ConnectionError(ev.session_id, ev.direction)
                   /\ ev.direction.out
                   /\ ev.peer_id \in Peers
                   /\ pending_tasks[ev.session_id].pc = "done"
                   /\ ev.session_id \in DOMAIN pending_sessions =>
                          pending_sessions[ev.session_id].direction = ev.direction
          /\ \A id \in DOMAIN pending_tasks :
                /\ pending_tasks[id].res.type = "OutgoingConnectionError" =>
                      /\ pending_tasks[id].pc = "send"
                      /\ pending_tasks[id].res =
                             ConnectionError(id, pending_tasks[id].direction)
                      /\ pending_tasks[id].direction.out
                /\ pending_tasks[id].pc = "connect" => pending_tasks[id].direction.out)
    /\ [][\A id \in DOMAIN pending_tasks :
             /\ (pending_tasks[id].pc = "connect"
                     /\ pending_tasks'[id].pc # "connect") =>
                   \/ /\ pending_tasks'[id].pc = "ecies"
                      /\ pending_session_rx' = pending_session_rx
                   \/ Produces(id, ConnectionError(id, pending_tasks[id].direction))
                   \/ Produces(id, TimeoutEvent(id, pending_tasks[id].direction))
             /\ (\E ev \in {ConnectionError(id, Outgoing(p)) : p \in Peers} :
                     /\ Produces(id, ev)
                     /\ ~HoldsConnectionError(id) \/ pending_tasks'[id].pc = "done") =>
                   \/ pending_tasks[id].pc = "connect"
                   \/ HoldsConnectionError(id)
             /\ HoldsConnectionError(id) =>
                   \/ pending_tasks'[id] = pending_tasks[id]
                   \/ Delivered(id)
                   \/ Produces(id, TimeoutEvent(id, pending_tasks[id].direction))]_vars
    /\ [][(ret'.op = "poll" /\ ret'.ev.type = "OutgoingConnectionError") =>
             /\ active_session_rx = << >>
             /\ pending_session_rx # << >>
             /\ Head(pending_session_rx).type = "OutgoingConnectionError"
             /\ Head(pending_session_rx).direction.out
             /\ ret'.ev.peer_id = Head(pending_session_rx).direction.peer
             /\ ret'.ev.peer_id \in Peers]_vars

\* poll has returned OutgoingConnectionError for the dialed peer of a dial
\* whose task never left its connect for the transport handshake, and the
\* dial's pending slot is free again.
C36_Witness ==
    /\ ret.op = "poll"
    /\ ret.ev.type = "OutgoingConnectionError"
    /\ ret.ev.peer_id \in Peers
    /\ counter.pending_outbound = 0
    /\ pending_session_rx = << >>

\* ------------------------------------------------ disconnect_all_pending
\* C37: disconnect_all_pending removes nothing: the same session ids are
\* pending after the call, with the same directions, and the counter, the
\* active sessions and both channels are as before. After the call no pending
\* handle has its sender left; the cancel signal reaches a task only in a call
\* that took the sender of its handle, so at most once in the life of the
\* handle, and a call leaves the tasks of the handles that had no sender as
\* they are. The only step that removes a pending handle is a poll that takes
\* the session's event from the pending-event channel.
C37_CancelKeepsHandles ==
    /\ [][(ret'.op = "disconnect_all_pending") =>
             /\ DOMAIN pending_sessions' = DOMAIN pending_sessions
             /\ UNCHANGED <<counter, active_sessions, sessions, pending_session_rx,
                            active_session_rx, next_id, retired>>
             /\ \A id \in DOMAIN pending_sessions :
                   /\ pending_sessions'[id].direction = pending_sessions[id].direction
                   /\ ~pending_sessions'[id].disconnect_tx
                   /\ ~pending_sessions[id].disconnect_tx =>
                          pending_tasks'[id] = pending_tasks[id]
                   /\ pending_tasks'[id] # pending_tasks[id] =>
                          pending_tasks'[id] = [pending_tasks[id] EXCEPT !.cancelled = TRUE]]_vars
    /\ [][\A id \in DOMAIN pending_sessions :
             /\ (id \in DOMAIN pending_sessions' /\ ~pending_sessions[id].disconnect_tx) =>
                    ~pending_sessions'[id].disconnect_tx
             /\ (id \in DOMAIN pending_tasks
                     /\ ~pending_tasks[id].cancelled /\ pending_tasks'[id].cancelled) =>
                    /\ ret'.op = "disconnect_all_pending"
                    /\ pending_sessions[id].disconnect_tx
             /\ id \notin DOMAIN pending_sessions' =>
                    /\ PollTookPending
                    /\ Head(pending_session_rx).session_id = id]_vars

\* disconnect_all_pending was called, the session it signalled is still in
\* pending_sessions with its pending slot taken, and its task has seen the
\* signal.
C37_Witness ==
    /\ ret.op = "disconnect_all_pending"
    /\ \E id \in DOMAIN pending_sessions :
          /\ ~pending_sessions[id].disconnect_tx
          /\ pending_tasks[id].cancelled
    /\ counter.pending_inbound + counter.pending_outbound = Cardinality(DOMAIN pending_sessions)
    /\ Cardinality(DOMAIN pending_sessions) = 2

\* ------------------------------------------------ the disconnect window
\* The session of the peer was asked to disconnect and has not yet taken the
\* command.
DisconnectRequested(peer_id) ==
    /\ peer_id \in DOMAIN commands_to_session
    /\ commands_to_session[peer_id] # << >>
    /\ Head(commands_to_session[peer_id]) = "Disconnect"

\* C38: disconnect changes neither active_sessions nor the counter. A handle
\* leaves active_sessions, and an active counter goes down, only in a poll
\* that takes the Disconnected or ClosedOnConnectionError message of that
\* handle's peer; so from the request until that poll the peer is in
\* active_sessions with its slot. A poll that takes the Established event of
\* a peer that is in active_sessions returns AlreadyConnected for the peer,
\* frees the attempt's pending slot and leaves the handle of the session,
\* its task, its command channel and the active counters as they are.
C38_ClosingSessionKeepsSlot ==
    /\ [][(ret'.op = "disconnect") =>
             UNCHANGED <<active_sessions, counter, sessions, pending_sessions>>]_vars
    /\ [][\/ \E h \in active_sessions : h \notin active_sessions'
          \/ counter'.active_inbound < counter.active_inbound
          \/ counter'.active_outbound < counter.active_outbound
          => /\ PollTookActive
             /\ Head(active_session_rx).type \in {"Disconnected", "ClosedOnConnectionError"}
             /\ \A h \in active_sessions :
                    h \notin active_sessions' => h.remote_id = Head(active_session_rx).peer_id
             /\ active_sessions' \subseteq active_sessions
             /\ counter'.active_inbound + counter'.active_outbound
                    = counter.active_inbound + counter.active_outbound - 1]_vars
    /\ [][(/\ PollTookPending
           /\ Head(pending_session_rx).type = "Established"
           /\ ActiveContainsKey(active_sessions, Head(pending_session_rx).peer_id)) =>
             LET event == Head(pending_session_rx) IN
             /\ ret'.ev.type = "AlreadyConnected"
             /\ ret'.ev.peer_id = event.peer_id
             /\ event.session_id \notin DOMAIN pending_sessions'
             /\ counter'.active_inbound = counter.active_inbound
             /\ counter'.active_outbound = counter.active_outbound
             /\ UNCHANGED <<active_sessions, sessions, commands_to_session>>]_vars

\* poll has returned AlreadyConnected for a peer whose session was asked to
\* disconnect and is still in active_sessions, with the request waiting in
\* its command channel.
C38_Witness ==
    /\ ret.op = "poll"
    /\ ret.ev.type = "AlreadyConnected"
    /\ ActiveContainsKey(active_sessions, ret.ev.peer_id)
    /\ DisconnectRequested(ret.ev.peer_id)
    /\ counter.active_inbound = 1

\* ------------------------------------------------- messages without entry
\* C39: a poll that takes a Disconnected or ClosedOnConnectionError message
\* of a peer that is not in active_sessions changes neither the counter nor
\* a table nor a command channel; in every state remove_pending_session with
\* an id that is not in pending_sessions and remove_active_session with a
\* peer that is not in active_sessions return the table and the counter they
\* were given; and in every state each of the four counters is at least zero
\* and at least the number of handles of its direction in its table.
C39_AbsentEntryChangesNothing ==
    /\ [][(/\ PollTookActive
           /\ Head(active_session_rx).type \in {"Disconnected", "ClosedOnConnectionError"}
           /\ ~ActiveContainsKey(active_sessions, Head(active_session_rx).peer_id)) =>
             /\ closed_absent'
             /\ UNCHANGED <<counter, active_sessions, pending_sessions, sessions,
                            commands_to_session>>]_vars
    /\ [](/\ \A id \in (0..next_id) \ DOMAIN pending_sessions :
                 remove_pending_session(pending_sessions, counter, id) =
                     [pending_sessions |-> pending_sessions, counter |-> counter]
          /\ \A peer_id \in Peers :
                 ~ActiveContainsKey(active_sessions, peer_id) =>
                     remove_active_session(active_sessions, counter, peer_id) =
                         [active_sessions |-> active_sessions, counter |-> counter]
          /\ \A out \in BOOLEAN :
                 /\ PendingCount(counter, out) >= 0
                 /\ ActiveCount(counter, out) >= 0
                 /\ PendingCount(counter, out) >= Cardinality(PendingOf(out))
                 /\ ActiveCount(counter, out) >= Cardinality(ActiveOf(out)))

\* poll has taken the second close message of a session, whose peer had no
\* handle any more, while a pending attempt holds its slot.
C39_Witness ==
    /\ ret.op = "poll"
    /\ ret.ev.type \in {"Disconnected", "SessionClosedOnConnectionError"}
    /\ closed_absent
    /\ counter.pending_inbound = 1
    /\ Cardinality(DOMAIN pending_sessions) = 1

\* ---------------------------------------------------------- promotion
\* The Established events that wait in the pending-event channel or in a
\* suspended send of a task.
EstablishedEvents ==
    {pending_session_rx[i] : i \in {j \in 1..Len(pending_session_rx) :
                                        pending_session_rx[j].type = "Established"}}
    \cup {pending_tasks[id].res : id \in {j \in DOMAIN pending_tasks :
                                              pending_tasks[j].res.type = "Established"}}

\* C40: every Established event carries the id of an attempt that is in
\* pending_sessions and the direction of that attempt's handle. A poll that
\* takes the Established event of a peer that is not in active_sessions adds
\* one handle, with the event's session id and peer and with the direction
\* of the pending handle it removes; the pending counter of that direction
\* drops by one, its active counter rises by one, and the other direction's
\* counters stay, so pending + active of each direction is unchanged.
C40_PromotionKeepsDirection ==
    /\ [](\A event \in EstablishedEvents :
              /\ event.session_id \in DOMAIN pending_sessions
              /\ event.direction = pending_sessions[event.session_id].direction)
    /\ [][(/\ PollTookPending
           /\ Head(pending_session_rx).type = "Established"
           /\ ~ActiveContainsKey(active_sessions, Head(pending_session_rx).peer_id)) =>
             LET event == Head(pending_session_rx)
                 removed == pending_sessions[event.session_id]
                 out == removed.direction.out
             IN
             /\ event.session_id \notin DOMAIN pending_sessions'
             /\ active_sessions' = active_sessions \cup
                    {ActiveSessionHandle(event.session_id, event.peer_id, removed.direction)}
             /\ PendingCount(counter', out) = PendingCount(counter, out) - 1
             /\ ActiveCount(counter', out) = ActiveCount(counter, out) + 1
             /\ PendingCount(counter', ~out) = PendingCount(counter, ~out)
             /\ ActiveCount(counter', ~out) = ActiveCount(counter, ~out)
             /\ \A d \in BOOLEAN :
                    PendingCount(counter', d) + ActiveCount(counter', d)
                        = PendingCount(counter, d) + ActiveCount(counter, d)]_vars

\* poll has promoted an outgoing attempt while an incoming one is pending:
\* the outbound slot is now an active one and the inbound slot is still held by
\* the pending attempt.
C40_Witness ==
    /\ ret.op = "poll"
    /\ ret.ev.type = "SessionEstablished"
    /\ \E h \in active_sessions : h.direction.out /\ h.remote_id = ret.ev.peer_id
    /\ counter.active_outbound = 1
    /\ counter.pending_outbound = 0
    /\ counter.pending_inbound = 1
    /\ counter.active_inbound = 0

====
